---- MODULE Spec2Model ----
(***************************************************************************)
(* Model of the Pharma-agent orchestration layer:                          *)
(*   - src/src/workflows/workflow.py   DrugRepurposingWorkflow             *)
(*   - src/src/workflows/master_agent.py   MasterAgent                     *)
(*   - src/src/api/main.py   /chats, /chats/start, /chats/status           *)
(*                                                                         *)
(* Python values are modelled as follows.  A dict is a record (a function  *)
(* from key strings); None, where a dict is optional, is the record None.  *)
(* A str that the code only passes around is a TLA+ string; a str that the *)
(* code parses (the request's message and molecule) is a sequence of       *)
(* one-character strings.  A raised exception is the record Exc(msg).      *)
(***************************************************************************)
EXTENDS Integers, Sequences, FiniteSets, TLC

VARIABLES
    \* ---- one call of DrugRepurposingWorkflow.run --------------------------
    run_pc,         \* "idle" | "streaming" | "returned" | "raised"
    st,             \* the WorkflowState dict threaded through the nodes
    active,         \* graph nodes whose function has been entered, not yet returned
    done,           \* graph nodes whose function has returned
    updates,        \* the states handed to on_state_update, in order
    final_state,    \* what run() returned (None before it returns)
    steps,          \* history: every value assigned to current_step, in order
    analyze_raised, \* history: agents whose analyze() raised in this run
    run_args,       \* history: the arguments of the run() call
    llm_outcome,    \* history: what the synthesis LLM call did (None before it)
    \* ---- the job store of the API ------------------------------------------
    WORKFLOW_JOBS,  \* job id -> job record
    job_pc,         \* job id -> position of its background task
    job_local,      \* job id -> locals of its background task
    issued,         \* history: job ids returned by POST /chats/start, in order
    faults,         \* history: number of exceptions injected into background tasks
    last_response,  \* the response of the request served by the last step
    \* ---- one request served by both submit variants ------------------------
    chat_request,   \* the ChatRequest
    sync_call,      \* what POST /chats did with it: run() arguments and response
    \* ---- the host of the API ------------------------------------------------
    environ,        \* os.environ and whether the service's imports work
    files,          \* the files on disk: path -> content
    \* ---- one call of MasterAgent.synthesize_results --------------------------
    synth_call,     \* its arguments and what it returned (None before the call)
    \* ---- one call of a worker agent's analyze() ------------------------------
    agent_pc,       \* "idle" | "raw" | "tool" | "llm" | "returned"
    agent_local,    \* the locals of analyze()
    generated,      \* history: the records the mock data generator returned
    prompts,        \* history: the tool outputs put into LLM prompts
    \* ---- one call of a function of the master agent, a tool or an agent -------
    call            \* the function, its arguments and what it did (None before it)

wfVars == <<run_pc, st, active, done, updates, final_state, steps, analyze_raised,
           run_args, llm_outcome>>
jobVars == <<WORKFLOW_JOBS, job_pc, job_local, issued, faults, last_response>>
chatVars == <<chat_request, sync_call>>
hostVars == <<environ, files>>
synthVars == <<synth_call>>
agentVars == <<agent_pc, agent_local, generated, prompts>>
callVars == <<call>>
otherVars == <<hostVars, synthVars, agentVars, callVars>>
vars == <<wfVars, jobVars, chatVars, otherVars>>

----------------------------------------------------------------------------
(* Python values *)

None == [isNone |-> TRUE]
EmptyDict == [k \in {} |-> None]
Exc(msg) == [exception |-> msg]
IsExc(v) == "exception" \in DOMAIN v
\* dict.get(k, default)
DictGet(d, k, default) == IF k \in DOMAIN d THEN d[k] ELSE default
\* the elements of a list
Range(seq) == {seq[i] : i \in 1..Len(seq)}
\* truthiness of an optional dict: None and {} are falsy
DictTruthy(d) == d # None /\ DOMAIN d # {}

----------------------------------------------------------------------------
(* MasterAgent *)

\* keys of MasterAgent.worker_agents, in insertion order
Agents == <<"iqvia", "exim", "patent", "clinical_trials", "internal", "web">>
AgentNames == {Agents[i] : i \in 1..Len(Agents)}

\* BaseWorkerAgent.name of each worker agent
AgentDisplay ==
    [iqvia |-> "IQVIA Insights Agent",
     exim |-> "EXIM Trade Agent",
     patent |-> "Patent Landscape Agent",
     clinical_trials |-> "Clinical Trials Agent",
     internal |-> "Internal Insights Agent",
     web |-> "Web Intelligence Agent"]

AgentRole ==
    [iqvia |-> "Market Intelligence Analyst",
     exim |-> "Trade Intelligence Analyst",
     patent |-> "Patent Intelligence Analyst",
     clinical_trials |-> "Clinical Research Analyst",
     internal |-> "Strategic Intelligence Analyst",
     web |-> "Scientific Intelligence Analyst"]

\* BaseWorkerAgent.format_insights: the dict a worker's analyze() returns
format_insights(a, raw_data, analysis, findings, recommendations) ==
    [agent_name |-> AgentDisplay[a],
     role |-> AgentRole[a],
     molecule |-> DictGet(raw_data, "molecule", "Unknown"),
     raw_data |-> raw_data,
     analysis |-> analysis,
     key_findings |-> findings,
     recommendations |-> recommendations]

\* What one call of a worker's analyze(molecule, ...) can do: return its
\* insights dict, or raise (the tool or the LLM call failed).
AnalyzeOutcomes(a, molecule) ==
    { Exc("analyze error"),
      format_insights(a, [molecule |-> molecule], "analysis",
                      <<"finding">>, <<"recommendation">>) }

\* MasterAgent.determine_agents_to_run with every agent dropped but the first:
\* a query-specific filter.
determine_agents_to_run_filtered(query, molecule) == <<Agents[1]>>

\* MasterAgent.determine_agents_to_run
determine_agents_to_run(query, molecule) == Agents

\* MasterAgent.execute_agent without its try/except: the exception of
\* analyze leaves execute_agent
execute_agent_propagating(agent_name, molecule, context, outcome) ==
    IF agent_name \notin AgentNames
    THEN Exc("Unknown agent")
    ELSE outcome

\* MasterAgent.execute_agent; `outcome` is what agent.analyze(...) does
execute_agent(agent_name, molecule, context, outcome) ==
    IF agent_name \notin AgentNames
    THEN Exc("Unknown agent")
    ELSE IF IsExc(outcome)
         THEN [agent_name |-> AgentDisplay[agent_name],
               error |-> outcome.exception,
               status |-> "failed"]
         ELSE outcome

\* the agents of `results` from position i on, in the dict's order
RECURSIVE ResultOrder(_, _)
ResultOrder(results, i) ==
    IF i > Len(Agents) THEN <<>>
    ELSE IF Agents[i] \in DOMAIN results
         THEN <<Agents[i]>> \o ResultOrder(results, i + 1)
         ELSE ResultOrder(results, i + 1)

Prefixed(display, items) == [k \in 1..Len(items) |-> display \o ": " \o items[k]]

\* the loop of synthesize_results without its test of the status: the
\* findings of failed results are collected too
RECURSIVE CollectUnfiltered(_, _, _)
CollectUnfiltered(results, order, key) ==
    IF order = <<>> THEN <<>>
    ELSE LET agent_name == Head(order)
             result == results[agent_name]
         IN Prefixed(DictGet(result, "agent_name", agent_name),
                     DictGet(result, key, <<>>))
              \o CollectUnfiltered(results, Tail(order), key)

\* the loop of synthesize_results over results.items(): key is "key_findings"
\* or "recommendations"
RECURSIVE Collect(_, _, _)
Collect(results, order, key) ==
    IF order = <<>> THEN <<>>
    ELSE LET agent_name == Head(order)
             result == results[agent_name]
             rest == Collect(results, Tail(order), key)
         IN IF DictGet(result, "status", "") = "failed"
            THEN rest
            ELSE Prefixed(DictGet(result, "agent_name", agent_name),
                          DictGet(result, key, <<>>)) \o rest

\* the dict synthesize_results builds once the LLM has answered `synthesis`;
\* `order` is the order of the keys of the dict `results`
SynthesizedFrom(order, results, molecule, query, synthesis) ==
    LET all_findings == Collect(results, order, "key_findings")
        all_recommendations == Collect(results, order, "recommendations")
    IN [molecule |-> molecule,
        query |-> query,
        synthesis |-> synthesis,
        key_findings |-> all_findings,
        recommendations |-> all_recommendations,
        agent_results |-> results,
        summary |->
           [total_agents_executed |->
               Cardinality({a \in DOMAIN results :
                              DictGet(results[a], "status", "") # "failed"}),
            agents_failed |->
               Cardinality({a \in DOMAIN results :
                              DictGet(results[a], "status", "") = "failed"}),
            key_insights_count |-> Len(all_findings),
            recommendations_count |-> Len(all_recommendations)]]

\* the same for the dict _synthesize_node builds, whose keys are in the order
\* of the agents
SynthesizedResult(results, molecule, query, synthesis) ==
    SynthesizedFrom(ResultOrder(results, 1), results, molecule, query, synthesis)

\* MasterAgent.synthesize_results reading the analysis of every result with
\* result["analysis"] instead of result.get("analysis", ...): a failed record
\* has no such key.
synthesize_results_strict(results, molecule, query, llm) ==
    IF \E a \in DOMAIN results : "analysis" \notin DOMAIN results[a]
    THEN Exc("KeyError: 'analysis'")
    ELSE IF IsExc(llm) THEN llm
         ELSE SynthesizedResult(results, molecule, query, llm.content)

\* MasterAgent.synthesize_results; `llm` is what self.llm.invoke does: a
\* response with its content, or Exc
synthesize_results(results, molecule, query, llm) ==
    IF IsExc(llm) THEN llm
    ELSE SynthesizedResult(results, molecule, query, llm.content)

\* MasterAgent.synthesize_results on a dict whose keys are in the order `order`
synthesize_results_in(order, results, molecule, query, llm) ==
    IF IsExc(llm) THEN llm
    ELSE SynthesizedFrom(order, results, molecule, query, llm.content)

LlmOutcomes == { Exc("llm error"), [content |-> "synthesis"] }

----------------------------------------------------------------------------
(* DrugRepurposingWorkflow: the graph *)

NodeOf ==
    [iqvia |-> "execute_iqvia",
     exim |-> "execute_exim",
     patent |-> "execute_patent",
     clinical_trials |-> "execute_clinical_trials",
     internal |-> "execute_internal",
     web |-> "execute_web"]

ResultSlot ==
    [iqvia |-> "iqvia_result",
     exim |-> "exim_result",
     patent |-> "patent_result",
     clinical_trials |-> "clinical_trials_result",
     internal |-> "internal_result",
     web |-> "web_result"]

ExecuteNodes == {NodeOf[a] : a \in AgentNames}
Nodes == {"plan", "synthesize"} \cup ExecuteNodes
END == "__end__"

\* _build_graph with the six agent nodes fanned out from plan and joined at
\* synthesize (a parallel graph)
EdgesFanOut ==
    {<<"plan", NodeOf[a]>> : a \in AgentNames}
      \cup {<<NodeOf[a], "synthesize">> : a \in AgentNames}
      \cup {<<"synthesize", END>>}

\* _build_graph with the edge out of execute_internal wired to synthesize:
\* execute_web is left out of the chain
EdgesSkipWeb ==
    {<<"plan", "execute_iqvia">>,
     <<"execute_iqvia", "execute_exim">>,
     <<"execute_exim", "execute_patent">>,
     <<"execute_patent", "execute_clinical_trials">>,
     <<"execute_clinical_trials", "execute_internal">>,
     <<"execute_internal", "synthesize">>,
     <<"synthesize", END>>}

\* _build_graph: set_entry_point and add_edge
EntryPoint == "plan"
Edges ==
    {<<"plan", "execute_iqvia">>,
     <<"execute_iqvia", "execute_exim">>,
     <<"execute_exim", "execute_patent">>,
     <<"execute_patent", "execute_clinical_trials">>,
     <<"execute_clinical_trials", "execute_internal">>,
     <<"execute_internal", "execute_web">>,
     <<"execute_web", "synthesize">>,
     <<"synthesize", END>>}

\* The compiled graph starts a node once the run has begun (the entry point)
\* or a node with an edge into it has returned; each node runs once.
CanStart(n) ==
    /\ run_pc = "streaming"
    /\ n \notin active \cup done
    /\ \/ n = EntryPoint
       \/ \E e \in Edges : e[2] = n /\ e[1] \in done

----------------------------------------------------------------------------
(* DrugRepurposingWorkflow: the nodes, as functions on the state dict *)

MsgPlanning == "Planning workflow and determining which agents to run..."
MsgRunning(a) == "Running " \o AgentDisplay[a] \o "..."
MsgFailed(a, e) == AgentDisplay[a] \o " failed: " \o e
MsgCompleted(a) == AgentDisplay[a] \o " completed successfully."
MsgSynthesizing == "Synthesizing results from all agents..."
MsgWorkflowCompleted == "Workflow completed. Synthesis and report data prepared."

\* run(): initial_state
InitialState(molecule, query, context) ==
    [molecule |-> molecule,
     user_query |-> query,
     context |-> IF DictTruthy(context) THEN context ELSE EmptyDict,
     agents_to_run |-> <<>>,
     agents_completed |-> <<>>,
     agents_failed |-> <<>>,
     iqvia_result |-> None,
     exim_result |-> None,
     patent_result |-> None,
     clinical_trials_result |-> None,
     internal_result |-> None,
     web_result |-> None,
     synthesized_result |-> None,
     report_data |-> None,
     current_step |-> "initialized",
     error |-> None,
     messages |-> <<>>]

\* _plan_node
PlanNode(state) ==
    [state EXCEPT
        !.current_step = "planning",
        !.messages = Append(@, MsgPlanning),
        !.agents_to_run = determine_agents_to_run(state.user_query, state.molecule),
        !.agents_completed = <<>>,
        !.agents_failed = <<>>]

\* _execute_<agent>_node that forgets to set current_step
ExecuteNodeBeginNoStep(state, a) ==
    [state EXCEPT !.messages = Append(@, MsgRunning(a))]

\* _execute_<agent>_node up to its call of master_agent.execute_agent
ExecuteNodeBegin(state, a) ==
    [state EXCEPT
        !.current_step = NodeOf[a],
        !.messages = Append(@, MsgRunning(a))]

\* _execute_<agent>_node that starts agents_completed afresh instead of
\* appending to it
ExecuteNodeEndClobber(state, a, outcome) ==
    LET result == execute_agent(a, state.molecule, state.context, outcome)
    IN IF IsExc(result)
       THEN [state EXCEPT
                ![ResultSlot[a]] = [error |-> result.exception, status |-> "failed"],
                !.agents_failed = Append(@, a),
                !.messages = Append(@, MsgFailed(a, result.exception))]
       ELSE [state EXCEPT
                ![ResultSlot[a]] = result,
                !.agents_completed = <<a>>,
                !.messages = Append(@, MsgCompleted(a))]

\* _execute_<agent>_node that stores a failed record without tracking the
\* agent in either list
ExecuteNodeEndUntracked(state, a, outcome) ==
    LET result == execute_agent(a, state.molecule, state.context, outcome)
    IN IF IsExc(result)
       THEN [state EXCEPT
                ![ResultSlot[a]] = [error |-> result.exception, status |-> "failed"],
                !.agents_failed = Append(@, a),
                !.messages = Append(@, MsgFailed(a, result.exception))]
       ELSE IF DictGet(result, "status", "") = "failed"
            THEN [state EXCEPT
                     ![ResultSlot[a]] = result,
                     !.messages = Append(@, MsgCompleted(a))]
            ELSE [state EXCEPT
                     ![ResultSlot[a]] = result,
                     !.agents_completed = Append(@, a),
                     !.messages = Append(@, MsgCompleted(a))]

\* _execute_<agent>_node from the return of master_agent.execute_agent on;
\* `outcome` is what the agent's analyze() did
ExecuteNodeEnd(state, a, outcome) ==
    LET result == execute_agent(a, state.molecule, state.context, outcome)
    IN IF IsExc(result)
       THEN [state EXCEPT
                ![ResultSlot[a]] = [error |-> result.exception, status |-> "failed"],
                !.agents_failed = Append(@, a),
                !.messages = Append(@, MsgFailed(a, result.exception))]
       ELSE [state EXCEPT
                ![ResultSlot[a]] = result,
                !.agents_completed = Append(@, a),
                !.messages = Append(@, MsgCompleted(a))]

\* _synthesize_node that starts a fresh message list
SynthesizeNodeBeginFreshLog(state) ==
    [state EXCEPT
        !.current_step = "synthesizing",
        !.messages = <<MsgSynthesizing>>]

\* _synthesize_node up to its call of master_agent.synthesize_results
SynthesizeNodeBegin(state) ==
    [state EXCEPT
        !.current_step = "synthesizing",
        !.messages = Append(@, MsgSynthesizing)]

\* _synthesize_node: the results dict, None results filtered out
CollectResults(state) ==
    [a \in {b \in AgentNames : state[ResultSlot[b]] # None} |-> state[ResultSlot[a]]]

\* _prepare_report_data
prepare_report_data(state, results) ==
    LET sr == IF state.synthesized_result = None THEN EmptyDict
              ELSE state.synthesized_result
    IN [molecule |-> state.molecule,
        query |-> state.user_query,
        synthesis |-> DictGet(sr, "synthesis", ""),
        agent_results |-> results,
        key_findings |-> DictGet(sr, "key_findings", <<>>),
        recommendations |-> DictGet(sr, "recommendations", <<>>),
        summary |-> DictGet(sr, "summary", EmptyDict)]

\* _synthesize_node that stores the synthesis but never sets report_data
SynthesizeNodeEndNoReport(state, llm) ==
    LET results == CollectResults(state)
        synthesized == synthesize_results(results, state.molecule, state.user_query, llm)
    IN IF IsExc(synthesized) THEN synthesized
       ELSE [state EXCEPT
                !.synthesized_result = synthesized,
                !.current_step = "completed",
                !.messages = Append(@, MsgWorkflowCompleted)]

\* _synthesize_node with report_data prepared before synthesized_result is
\* stored
SynthesizeNodeEndReportFirst(state, llm) ==
    LET results == CollectResults(state)
        synthesized == synthesize_results(results, state.molecule, state.user_query, llm)
    IN IF IsExc(synthesized) THEN synthesized
       ELSE [state EXCEPT
                !.report_data = prepare_report_data(state, results),
                !.synthesized_result = synthesized,
                !.current_step = "completed",
                !.messages = Append(@, MsgWorkflowCompleted)]

\* _synthesize_node from the return of master_agent.synthesize_results on;
\* the value is Exc when synthesize_results raised (the node has no try)
SynthesizeNodeEnd(state, llm) ==
    LET results == CollectResults(state)
        synthesized == synthesize_results(results, state.molecule, state.user_query, llm)
    IN IF IsExc(synthesized) THEN synthesized
       ELSE LET s1 == [state EXCEPT !.synthesized_result = synthesized]
            IN [s1 EXCEPT
                   !.report_data = prepare_report_data(s1, results),
                   !.current_step = "completed",
                   !.messages = Append(@, MsgWorkflowCompleted)]

----------------------------------------------------------------------------
(* DrugRepurposingWorkflow: a node run from entry to return *)

\* the one edge out of node n in the chain built by _build_graph
Succ(n) == CHOOSE m \in Nodes \cup {END} : <<n, m>> \in Edges

\* What the environment does to one run: the agents whose analyze() raises,
\* and what the synthesis LLM call does.
NodeOutcome(n, fails, llm, molecule) ==
    IF n = "synthesize" THEN llm
    ELSE LET a == CHOOSE b \in AgentNames : NodeOf[b] = n
         IN CHOOSE o \in AnalyzeOutcomes(a, molecule) : IsExc(o) <=> a \in fails

\* the node function of n applied to state; Exc when the node raises
NodeStep(state, n, fails, llm) ==
    IF n = "plan" THEN PlanNode(state)
    ELSE IF n = "synthesize"
         THEN SynthesizeNodeEnd(SynthesizeNodeBegin(state), llm)
         ELSE LET a == CHOOSE b \in AgentNames : NodeOf[b] = n
              IN ExecuteNodeEnd(ExecuteNodeBegin(state, a), a,
                                NodeOutcome(n, fails, llm, state.molecule))

\* graph.stream from node n on: the states the nodes return, in order,
\* ending with Exc when a node raised
RECURSIVE StreamFrom(_, _, _, _)
StreamFrom(state, n, fails, llm) ==
    IF n = END THEN <<>>
    ELSE LET s2 == NodeStep(state, n, fails, llm)
         IN IF IsExc(s2) THEN <<s2>>
            ELSE <<s2>> \o StreamFrom(s2, Succ(n), fails, llm)

----------------------------------------------------------------------------
(* src/src/api/main.py: strings the handlers parse are sequences of          *)
(* one-character strings; an absent Optional[str] is NoStr                  *)

NoStr == <<"<None>">>
Unknown == <<"U", "n", "k", "n", "o", "w", "n">>
Default == <<"d", "e", "f", "a", "u", "l", "t">>
Session == <<"s", "e", "s", "s", "i", "o", "n">>
\* truthiness of an Optional[str]
StrTruthy(s) == s # NoStr /\ s # <<>>
\* a or b
StrOr(a, b) == IF StrTruthy(a) THEN a ELSE b
Ret(v) == [value |-> v]

\* str.split(): the words of s, split at runs of whitespace
RECURSIVE SplitFrom(_, _, _)
SplitFrom(s, i, word) ==
    IF i > Len(s)
    THEN IF word = <<>> THEN <<>> ELSE <<word>>
    ELSE IF s[i] = " "
         THEN IF word = <<>> THEN SplitFrom(s, i + 1, <<>>)
              ELSE <<word>> \o SplitFrom(s, i + 1, <<>>)
         ELSE SplitFrom(s, i + 1, Append(word, s[i]))
split(s) == SplitFrom(s, 1, <<>>)

\* str.strip(chars)
RECURSIVE lstrip(_, _)
lstrip(s, chars) ==
    IF s # <<>> /\ Head(s) \in chars THEN lstrip(Tail(s), chars) ELSE s
RECURSIVE rstrip(_, _)
rstrip(s, chars) ==
    IF s # <<>> /\ s[Len(s)] \in chars THEN rstrip(SubSeq(s, 1, Len(s) - 1), chars) ELSE s
strip(s, chars) == rstrip(lstrip(s, chars), chars)
Quotes == {"'", "\""}

\* words[0]; IndexError on an empty list
FirstWord(s) ==
    IF split(s) = <<>> THEN Exc("IndexError: list index out of range")
    ELSE Ret(split(s)[1])

\* the context both handlers build
RequestContext(request) ==
    IF StrTruthy(request.molecule) THEN [molecule |-> request.molecule] ELSE EmptyDict

\* chats(): the molecule it extracts (Ret) or the exception raised (Exc)
ChatsMolecule(request) ==
    LET first ==
            IF StrTruthy(request.message)
            THEN IF StrTruthy(request.molecule) THEN Ret(request.molecule)
                 ELSE FirstWord(request.message)
            ELSE Ret(Unknown)
    IN IF IsExc(first) THEN first
       ELSE IF ~StrTruthy(request.molecule) /\ StrTruthy(request.message)
                 /\ Len(split(request.message)) > 0
            THEN Ret(strip(split(request.message)[1], Quotes))
            ELSE first

\* chats(): the arguments of its workflow.run call, or the exception raised
\* before the call
ChatsRunArgs(request) ==
    LET molecule == ChatsMolecule(request)
    IN IF IsExc(molecule) THEN molecule
       ELSE [molecule |-> molecule.value,
             query |-> request.message,
             context |-> RequestContext(request)]

\* _run_workflow_job: the molecule it extracts, or the exception raised
JobMolecule(request_data) ==
    LET message == StrOr(request_data.message, <<>>)
    IN IF StrTruthy(request_data.molecule) THEN Ret(request_data.molecule)
       ELSE IF StrTruthy(message) THEN FirstWord(message)
            ELSE Ret(Unknown)

\* _run_workflow_job: the arguments of its workflow.run call, or the exception
\* raised before the call
JobRunArgs(request_data) ==
    LET molecule == JobMolecule(request_data)
    IN IF IsExc(molecule) THEN molecule
       ELSE [molecule |-> molecule.value,
             query |-> StrOr(request_data.message, <<>>),
             context |-> RequestContext(request_data)]

\* the workflow_state excerpt both handlers and the callback build
StateExcerpt(state) ==
    [agents_completed |-> DictGet(state, "agents_completed", <<>>),
     agents_failed |-> DictGet(state, "agents_failed", <<>>),
     current_step |-> DictGet(state, "current_step", "unknown"),
     messages |-> DictGet(state, "messages", <<>>)]

\* ReportGenerator.generate_reports: the paths it returns, or Exc
ReportOutcomes ==
    { Exc("report error"),
      [pdf |-> "outputs/report.pdf", excel |-> "outputs/report.xlsx",
       base_filename |-> "report"] }

\* the report_paths of a handler with no try around generate_reports: the
\* error is what ends up in the response
ReportPathsNoExcept(report_data, report) ==
    IF DictTruthy(report_data)
    THEN IF IsExc(report) THEN report
         ELSE [pdf |-> report.pdf, excel |-> report.excel,
               base_filename |-> report.base_filename]
    ELSE None

\* the report_paths both handlers compute from what generate_reports did
ReportPaths(report_data, report) ==
    IF DictTruthy(report_data) /\ ~IsExc(report)
    THEN [pdf |-> report.pdf, excel |-> report.excel,
          base_filename |-> report.base_filename]
    ELSE None

\* the ChatResponse both handlers build from the final state
ChatResponse(session_id, molecule, final, report_paths) ==
    LET synthesized_result == final.synthesized_result
        synthesis_text ==
            DictGet(synthesized_result, "synthesis", "Analysis completed successfully.")
    IN [response |-> synthesis_text,
        status |-> "completed",
        session_id |-> StrOr(session_id, Default),
        data |-> [molecule |-> molecule,
                  synthesis |-> synthesis_text,
                  key_findings |-> DictGet(synthesized_result, "key_findings", <<>>),
                  recommendations |-> DictGet(synthesized_result, "recommendations", <<>>),
                  summary |-> DictGet(synthesized_result, "summary", EmptyDict)],
        report_paths |-> report_paths,
        workflow_state |-> StateExcerpt(final)]

----------------------------------------------------------------------------
(* Specification Spec: one call of DrugRepurposingWorkflow.run *)

\* arguments a caller may pass to run()
Molecules == {"Metformin", ""}
Queries == {"Analyze Metformin for repurposing", ""}
Contexts == {None, EmptyDict, [molecule |-> "Metformin"], [region |-> "US"]}

JobsIdle ==
    /\ WORKFLOW_JOBS = EmptyDict
    /\ job_pc = EmptyDict
    /\ job_local = EmptyDict
    /\ issued = <<>>
    /\ faults = 0
    /\ last_response = None

ChatIdle ==
    /\ chat_request = None
    /\ sync_call = None

WorkflowIdle ==
    /\ run_pc = "idle"
    /\ st = None
    /\ active = {}
    /\ done = {}
    /\ updates = <<>>
    /\ final_state = None
    /\ steps = <<>>
    /\ analyze_raised = {}
    /\ run_args = None
    /\ llm_outcome = None

\* nothing but the service's own modules on the host, no call in progress
OthersIdle ==
    /\ environ = [GOOGLE_API_KEY |-> <<"k">>, imports |-> TRUE]
    /\ files = EmptyDict
    /\ synth_call = None
    /\ agent_pc = "idle"
    /\ agent_local = None
    /\ generated = <<>>
    /\ prompts = <<>>
    /\ call = None

Init == WorkflowIdle /\ JobsIdle /\ ChatIdle /\ OthersIdle

\* run(molecule, query, context, on_state_update): build initial_state and
\* start streaming the graph
Run(molecule, query, context) ==
    /\ run_pc = "idle"
    /\ run_pc' = "streaming"
    /\ st' = InitialState(molecule, query, context)
    /\ steps' = <<"initialized">>
    /\ run_args' = [molecule |-> molecule, query |-> query, context |-> context]
    /\ UNCHANGED <<active, done, updates, final_state, analyze_raised, llm_outcome>>
    /\ UNCHANGED <<jobVars, chatVars, otherVars>>

\* the plan node runs; the stream yields its state and run() hands it to
\* on_state_update
Plan ==
    /\ CanStart("plan")
    /\ st' = PlanNode(st)
    /\ done' = done \cup {"plan"}
    /\ updates' = Append(updates, st')
    /\ steps' = Append(steps, st'.current_step)
    /\ UNCHANGED <<run_pc, active, final_state, analyze_raised, run_args, llm_outcome>>
    /\ UNCHANGED <<jobVars, chatVars, otherVars>>

\* an agent node is entered and calls execute_agent: the agent is in flight
ExecuteStart(a) ==
    /\ CanStart(NodeOf[a])
    /\ st' = ExecuteNodeBegin(st, a)
    /\ active' = active \cup {NodeOf[a]}
    /\ steps' = Append(steps, st'.current_step)
    /\ UNCHANGED <<run_pc, done, updates, final_state, analyze_raised, run_args,
                   llm_outcome>>
    /\ UNCHANGED <<jobVars, chatVars, otherVars>>

\* the agent's analyze() returns or raises; the node finishes, the stream
\* yields its state and run() hands it to on_state_update
ExecuteFinish(a) ==
    /\ run_pc = "streaming"
    /\ NodeOf[a] \in active
    /\ \E outcome \in AnalyzeOutcomes(a, st.molecule) :
          /\ st' = ExecuteNodeEnd(st, a, outcome)
          /\ analyze_raised' =
                IF IsExc(outcome) THEN analyze_raised \cup {a} ELSE analyze_raised
    /\ active' = active \ {NodeOf[a]}
    /\ done' = done \cup {NodeOf[a]}
    /\ updates' = Append(updates, st')
    /\ UNCHANGED <<run_pc, final_state, steps, run_args, llm_outcome>>
    /\ UNCHANGED <<jobVars, chatVars, otherVars>>

\* the synthesize node is entered and calls synthesize_results
SynthesizeStart ==
    /\ CanStart("synthesize")
    /\ st' = SynthesizeNodeBegin(st)
    /\ active' = active \cup {"synthesize"}
    /\ steps' = Append(steps, st'.current_step)
    /\ UNCHANGED <<run_pc, done, updates, final_state, analyze_raised, run_args,
                   llm_outcome>>
    /\ UNCHANGED <<jobVars, chatVars, otherVars>>

\* synthesize_results returns or raises.  When it raises, the exception leaves
\* the node, graph.stream and run().
SynthesizeFinish ==
    /\ run_pc = "streaming"
    /\ "synthesize" \in active
    /\ \E llm \in LlmOutcomes :
          LET r == SynthesizeNodeEnd(st, llm)
          IN /\ llm_outcome' = llm
             /\ IF IsExc(r)
                THEN /\ run_pc' = "raised"
                     /\ UNCHANGED <<st, done, updates, steps>>
                ELSE /\ st' = r
                     /\ done' = done \cup {"synthesize"}
                     /\ updates' = Append(updates, r)
                     /\ steps' = Append(steps, r.current_step)
                     /\ UNCHANGED run_pc
    /\ active' = active \ {"synthesize"}
    /\ UNCHANGED <<final_state, analyze_raised, run_args>>
    /\ UNCHANGED <<jobVars, chatVars, otherVars>>

\* the stream is exhausted (no node is running and none can start):
\* run() returns final_state or initial_state
StreamExhausted ==
    /\ run_pc = "streaming"
    /\ active = {}
    /\ \A n \in Nodes : ~CanStart(n)

Return ==
    /\ StreamExhausted
    /\ run_pc' = "returned"
    /\ final_state' = IF updates # <<>> THEN updates[Len(updates)] ELSE st
    /\ UNCHANGED <<st, active, done, updates, steps, analyze_raised, run_args,
                   llm_outcome>>
    /\ UNCHANGED <<jobVars, chatVars, otherVars>>

Next ==
    \/ \E m \in Molecules, q \in Queries, c \in Contexts : Run(m, q, c)
    \/ Plan
    \/ \E a \in AgentNames : ExecuteStart(a)
    \/ \E a \in AgentNames : ExecuteFinish(a)
    \/ SynthesizeStart
    \/ SynthesizeFinish
    \/ Return

Spec == Init /\ [][Next]_vars

----------------------------------------------------------------------------
(* Specification SpecJobs: the job store, the background tasks of            *)
(* POST /chats/start, and GET /chats/status polls, interleaved.  A background *)
(* task runs in a worker thread while the event loop serves requests, so     *)
(* every assignment to WORKFLOW_JOBS is a step of its own.                   *)

\* at most MaxJobs jobs are started
MaxJobs == 2
\* at most MaxFaults of the calls the background tasks make to their
\* environment fail (workflow construction, the agents' analyze of one run, the
\* synthesis LLM call, report generation)
MaxFaults == 1

\* uuid4().hex[:8] of the n-th job started: a fresh token
Hex(n) == [i \in 1..n |-> "a"]
\* chats_start: job_id
JobId(session_id, n) == StrOr(session_id, Session) \o <<"-">> \o Hex(n)

SessionIds == {NoStr, <<"s">>}
\* requests posted to /chats/start
JobRequests ==
    { [message |-> <<"m", " ", "q">>, molecule |-> NoStr, session_id |-> <<"s">>],
      [message |-> <<" ">>, molecule |-> NoStr, session_id |-> NoStr] }
\* job ids polled: the id of the first job started, which is one of these two,
\* and the other one, which no start ever returns
PollIds == {JobId(sid, 1) : sid \in SessionIds}

\* the agents whose analyze() raises during the run of one job: none, or all
JobFailSets == {{}, AgentNames}
Bit(b) == IF b THEN 1 ELSE 0

\* a Python str held in a field that may also be None
PyStr(x) == [str |-> x]
Put(f, k, v) == [x \in DOMAIN f \cup {k} |-> IF x = k THEN v ELSE f[x]]
Write(key, value) == [key |-> key, value |-> value]

\* chats_start: the record stored for a new job
NewJobRecord ==
    [status |-> "queued", error |-> None, workflow_state |-> None, result |-> None]

\* _run_workflow_job: the first two assignments of its try block
JobBeginWrites == <<Write("status", "running"), Write("error", None)>>

\* _run_workflow_job with an except block that records the error and leaves
\* the status as it is
JobExceptWritesNoStatus(job_id, e) ==
    <<Write("error", PyStr(<<"Error in background job ", job_id, ": ", e>>))>>

\* _run_workflow_job: the assignments of its except block
JobExceptWrites(job_id, e) ==
    <<Write("status", "failed"),
      Write("error", PyStr(<<"Error in background job ", job_id, ": ", e>>))>>

\* _run_workflow_job after workflow.run returned final_state: the assignments
\* it makes; `report` is what generate_reports does
JobFinishWrites(request_data, molecule, final, report) ==
    IF ~DictTruthy(final.synthesized_result)
    THEN <<Write("status", "failed"),
           Write("error", PyStr("Workflow did not produce synthesized results")),
           Write("workflow_state", final)>>
    ELSE LET result_payload ==
                 ChatResponse(request_data.session_id, molecule, final,
                              ReportPaths(final.report_data, report))
         IN <<Write("status", "completed"),
              Write("workflow_state", result_payload.workflow_state),
              Write("result", result_payload)>>

\* DrugRepurposingWorkflow(): MasterAgent.__init__ returns, or raises
\* ValueError when GOOGLE_API_KEY is not set
CtorOutcomes == { Exc("GOOGLE_API_KEY not found in environment variables"), Ret("workflow") }

\* chats_status answering 404 for a job that has no result yet
StatusResponseNoResult(jobs, job_id) ==
    IF job_id \notin DOMAIN jobs \/ jobs[job_id].result = None
    THEN [model |-> "HTTPException", code |-> 404, job_id |-> job_id,
          detail |-> "Job not found"]
    ELSE [model |-> "ChatJobStatusResponse", code |-> 200,
          job_id |-> job_id,
          status |-> DictGet(jobs[job_id], "status", "unknown"),
          error |-> DictGet(jobs[job_id], "error", None),
          workflow_state |-> DictGet(jobs[job_id], "workflow_state", None),
          result |-> DictGet(jobs[job_id], "result", None)]

\* chats_status: the response for job_id given the store
StatusResponse(jobs, job_id) ==
    IF job_id \notin DOMAIN jobs \/ ~DictTruthy(jobs[job_id])
    THEN [model |-> "HTTPException", code |-> 404, job_id |-> job_id,
          detail |-> "Job not found"]
    ELSE [model |-> "ChatJobStatusResponse", code |-> 200,
          job_id |-> job_id,
          status |-> DictGet(jobs[job_id], "status", "unknown"),
          error |-> DictGet(jobs[job_id], "error", None),
          workflow_state |-> DictGet(jobs[job_id], "workflow_state", None),
          result |-> DictGet(jobs[job_id], "result", None)]

InitJobs ==
    /\ WorkflowIdle /\ ChatIdle /\ OthersIdle
    /\ WORKFLOW_JOBS = EmptyDict
    /\ job_pc = EmptyDict
    /\ job_local = EmptyDict
    /\ issued = <<>>
    /\ faults = 0
    /\ last_response = None

\* POST /chats/start: store the record and schedule the background task
ChatsStart(req) ==
    /\ Len(issued) < MaxJobs
    /\ LET job_id == JobId(req.session_id, Len(issued) + 1)
       IN /\ WORKFLOW_JOBS' = Put(WORKFLOW_JOBS, job_id, NewJobRecord)
          /\ job_pc' = Put(job_pc, job_id, "writing")
          /\ job_local' = Put(job_local, job_id,
                              [request_data |-> req, run_args |-> None, molecule |-> NoStr,
                               fails |-> {}, state |-> None, report |-> None,
                               raised |-> FALSE,
                               next |-> EntryPoint, pending |-> JobBeginWrites,
                               after |-> "stream"])
          /\ issued' = Append(issued, job_id)
          /\ last_response' = [model |-> "ChatJobStartResponse", code |-> 200,
                               job_id |-> job_id, status |-> "started"]
    /\ UNCHANGED <<faults, wfVars, chatVars, otherVars>>

\* one assignment WORKFLOW_JOBS[job_id][key] = value of the task of job j
JobWrite(j) ==
    /\ job_pc[j] = "writing"
    /\ LET w == Head(job_local[j].pending)
           rest == Tail(job_local[j].pending)
       IN /\ WORKFLOW_JOBS' = [WORKFLOW_JOBS EXCEPT ![j][w.key] = w.value]
          /\ job_local' = [job_local EXCEPT ![j].pending = rest]
          /\ job_pc' = [job_pc EXCEPT ![j] =
                           IF rest = <<>> THEN job_local[j].after ELSE "writing"]
    /\ last_response' = None
    /\ UNCHANGED <<issued, faults, wfVars, chatVars, otherVars>>

\* The task of job j up to its next assignment to WORKFLOW_JOBS.
\* Before the first node: it extracts message and molecule, constructs the
\* workflow and the context, and workflow.run builds its initial state.
\* Then the next node runs, the stream yields its state and on_state_update
\* stores the excerpt in the job record.  After the last node workflow.run
\* returns, reports are generated and the response payload is built; the
\* assignments to the record follow.  An exception ends the try block and the
\* assignments of the except block follow.
JobNode(j) ==
    /\ job_pc[j] = "stream"
    /\ \E ctor \in CtorOutcomes, fails \in JobFailSets, llm \in LlmOutcomes,
          report \in ReportOutcomes :
        \* each of loc, args and s2 is computed once
        \E loc \in {job_local[j]} :
        \E args \in {JobRunArgs(loc.request_data)} :
          LET n == loc.next
              first == n = EntryPoint
              last == Succ(n) = END
              e0 == IF IsExc(args) THEN args ELSE ctor
              \* the calls made in this step that raise
              raised == Bit(first /\ ~IsExc(args) /\ IsExc(ctor))
                          + Bit(first /\ ~IsExc(e0) /\ fails # {})
                          + Bit(n = "synthesize" /\ IsExc(llm))
                          + Bit(last /\ ~IsExc(llm) /\ IsExc(report))
              \* a choice that is not used in this step is fixed
              used == /\ (~first \/ IsExc(args)) => ~IsExc(ctor)
                      /\ first /\ IsExc(e0) => fails = {}
                      /\ ~first => fails = loc.fails
                      /\ n # "synthesize" => ~IsExc(llm)
                      /\ (~last \/ IsExc(llm)) => ~IsExc(report)
          IN /\ used
             /\ faults + raised <= MaxFaults
             /\ faults' = faults + raised
             /\ IF first /\ IsExc(e0)
                THEN /\ job_pc' = [job_pc EXCEPT ![j] = "writing"]
                     /\ job_local' = [job_local EXCEPT
                                         ![j].pending = JobExceptWrites(j, e0.exception),
                                         ![j].raised = TRUE,
                                         ![j].after = "finished"]
                     /\ UNCHANGED WORKFLOW_JOBS
                ELSE \E s2 \in {NodeStep(IF first
                                         THEN InitialState(args.molecule, args.query,
                                                           args.context)
                                         ELSE loc.state,
                                         n, fails, llm)} :
                     IF IsExc(s2)
                     THEN /\ job_pc' = [job_pc EXCEPT ![j] = "writing"]
                          /\ job_local' = [job_local EXCEPT
                                ![j].run_args = IF first THEN args ELSE loc.run_args,
                                ![j].pending = JobExceptWrites(j, s2.exception),
                                ![j].raised = TRUE,
                                ![j].after = "finished"]
                          /\ UNCHANGED WORKFLOW_JOBS
                     ELSE \E molecule \in {IF first THEN args.molecule ELSE loc.molecule} :
                          /\ WORKFLOW_JOBS' =
                                [WORKFLOW_JOBS EXCEPT ![j].workflow_state = StateExcerpt(s2)]
                          /\ job_pc' = [job_pc EXCEPT
                                           ![j] = IF last THEN "writing" ELSE "stream"]
                          /\ job_local' = [job_local EXCEPT
                                ![j].run_args = IF first THEN args ELSE loc.run_args,
                                ![j].molecule = molecule,
                                ![j].fails = fails,
                                ![j].state = s2,
                                ![j].report = IF last THEN report ELSE None,
                                ![j].next = Succ(n),
                                ![j].pending =
                                    IF last
                                    THEN JobFinishWrites(loc.request_data, molecule, s2,
                                                         report)
                                    ELSE <<>>,
                                ![j].after = "finished"]
    /\ last_response' = None
    /\ UNCHANGED <<issued, wfVars, chatVars, otherVars>>

\* GET /chats/status/{job_id}
ChatsStatus(job_id) ==
    /\ last_response' = StatusResponse(WORKFLOW_JOBS, job_id)
    /\ UNCHANGED <<WORKFLOW_JOBS, job_pc, job_local, issued, faults, wfVars, chatVars, otherVars>>

NextJobs ==
    \/ \E req \in JobRequests : ChatsStart(req)
    \/ \E j \in DOMAIN job_pc : JobWrite(j)
    \/ \E j \in DOMAIN job_pc : JobNode(j)
    \/ \E job_id \in PollIds : ChatsStatus(job_id)

SpecJobs == InitJobs /\ [][NextJobs]_vars

\* the ids POST /chats/start can return
AllJobIds == {JobId(sid, n) : sid \in SessionIds, n \in 1..MaxJobs}
\* a write of the background task of some job to the store
JobWriteStep == \E j \in DOMAIN job_pc : JobWrite(j)
\* some background task is consuming the workflow's stream: JobNode(j) is
\* enabled exactly when job_pc[j] = "stream" (the choice where nothing
\* raises is always allowed)
StreamPending == \E j \in DOMAIN job_pc : job_pc[j] = "stream"
\* a JobNode step: the only step that changes the locals of a streaming task
StreamStep ==
    \E j \in DOMAIN job_pc : job_pc[j] = "stream" /\ job_local'[j] # job_local[j]

\* The same, with the background tasks that chats_start added being run:
\* BackgroundTasks runs a task after the response is sent, and the task's
\* calls return or raise, so as long as some task has a step to take, a task
\* takes a step.  The second conjunct is weak fairness of
\* \E j \in DOMAIN job_pc : JobNode(j), written with its enabling condition.
SpecJobsLive ==
    /\ SpecJobs
    /\ WF_vars(JobWriteStep)
    /\ ([]<>(~StreamPending) \/ []<><<StreamStep>>_vars)

----------------------------------------------------------------------------
(* Specification SpecChat: one ChatRequest submitted to both variants,       *)
(* POST /chats and POST /chats/start with its background task                *)

\* the longest message posted
MaxLen == 2
Alphabet == {"m", " ", "'"}
Strings(n) == UNION {[1..k -> Alphabet] : k \in 0..n}
\* ChatRequest: message is required, molecule and session_id are optional
ChatRequests ==
    [message : Strings(MaxLen),
     molecule : {NoStr, <<>>, <<"m">>},
     session_id : SessionIds]

HTTPError(detail) == [model |-> "HTTPException", code |-> 500, detail |-> detail]

\* chats(): the response, given its run() arguments (or the exception raised
\* before the call) and what the environment does
ChatsResponse(req, args, ctor, fails, llm, report) ==
    IF IsExc(args) THEN HTTPError(<<"Error processing request: ", args.exception>>)
    ELSE IF IsExc(ctor) THEN HTTPError(<<"Configuration error: ", ctor.exception>>)
    ELSE LET stream == StreamFrom(InitialState(args.molecule, args.query, args.context),
                                  EntryPoint, fails, llm)
             final == stream[Len(stream)]
         IN IF IsExc(final)
            THEN HTTPError(<<"Error processing request: ", final.exception>>)
            ELSE IF ~DictTruthy(final.synthesized_result)
            THEN HTTPError(<<"Error processing request: ",
                             "Workflow did not produce synthesized results">>)
            ELSE [model |-> "ChatResponse", code |-> 200] @@
                 ChatResponse(req.session_id, args.molecule, final,
                              ReportPaths(final.report_data, report))

InitChat ==
    /\ WorkflowIdle /\ JobsIdle /\ OthersIdle
    /\ chat_request \in ChatRequests
    /\ sync_call = None

\* POST /chats with the request
Chats ==
    /\ sync_call = None
    /\ \E ctor \in CtorOutcomes, fails \in JobFailSets, llm \in LlmOutcomes,
          report \in ReportOutcomes :
          LET args == ChatsRunArgs(chat_request)
              \* a choice that is not used is fixed
              used == /\ IsExc(args) => ~IsExc(ctor)
                      /\ (IsExc(args) \/ IsExc(ctor)) => fails = {} /\ ~IsExc(llm)
                      /\ (IsExc(args) \/ IsExc(ctor) \/ IsExc(llm)) => ~IsExc(report)
          IN /\ used
             /\ sync_call' = [args |-> args,
                              called |-> ~IsExc(args) /\ ~IsExc(ctor),
                              report |-> report,
                              response |-> ChatsResponse(chat_request, args, ctor,
                                                         fails, llm, report)]
             /\ last_response' = sync_call'.response
    /\ UNCHANGED <<WORKFLOW_JOBS, job_pc, job_local, issued, faults, chat_request,
                   wfVars, otherVars>>

\* POST /chats/start with the request
ChatsStartRequest ==
    /\ issued = <<>>
    /\ ChatsStart(chat_request)

NextChat ==
    \/ Chats
    \/ ChatsStartRequest
    \/ \E j \in DOMAIN job_pc : JobWrite(j)
    \/ \E j \in DOMAIN job_pc : JobNode(j)

SpecChat == InitChat /\ [][NextChat]_vars

----------------------------------------------------------------------------
(* Specification SpecHost: GET /health and GET /reports/{report_type}/{filename} *)
(* on a host whose environment and files change.  A path is a sequence of      *)
(* components, a component a sequence of one-character strings; relative      *)
(* paths are relative to the working directory of the service.                *)

\* the longest filename requested
MaxName == 2
NameChars == {"a", ".", "/", "\\"}
Filenames == UNION {[1..k -> NameChars] : k \in 1..MaxName}
ReportTypes == {"pdf", "excel", "txt"}

Outputs == <<"o", "u", "t", "p", "u", "t", "s">>
Dot == <<".">>
DotDot == <<".", ".">>
Root == <<"/">>

\* sub in s, for strings
Contains(s, sub) ==
    \E i \in 1..(Len(s) - Len(sub) + 1) : SubSeq(s, i, i + Len(sub) - 1) = sub

\* pathlib: the components of the string s, split at "/"; empty components
\* and "." are dropped
RECURSIVE PartsFrom(_, _, _)
PartsFrom(s, i, part) ==
    LET keep == IF part = <<>> \/ part = Dot THEN <<>> ELSE <<part>>
    IN IF i > Len(s) THEN keep
       ELSE IF s[i] = "/" THEN keep \o PartsFrom(s, i + 1, <<>>)
            ELSE PartsFrom(s, i + 1, Append(part, s[i]))

\* pathlib (POSIX flavour): base / name; an absolute name replaces base
PathJoin(base, name) ==
    IF name # <<>> /\ name[1] = "/" THEN <<Root>> \o PartsFrom(name, 1, <<>>)
    ELSE base \o PartsFrom(name, 1, <<>>)

\* the file system's resolution of a path: ".." steps to the parent
RECURSIVE Resolve(_, _)
Resolve(parts, acc) ==
    IF parts = <<>> THEN acc
    ELSE IF Head(parts) = DotDot
         THEN IF acc = <<>> \/ acc[Len(acc)] = DotDot
              THEN Resolve(Tail(parts), Append(acc, DotDot))
              ELSE IF acc = <<Root>> THEN Resolve(Tail(parts), acc)
                   ELSE Resolve(Tail(parts), SubSeq(acc, 1, Len(acc) - 1))
         ELSE Resolve(Tail(parts), Append(acc, Head(parts)))

\* Path.exists(): true of files and of directories; the working directory
\* and the root always exist
exists(fs, path) ==
    LET real == Resolve(path, <<>>)
    IN real = <<>> \/ real = <<Root>> \/ real \in DOMAIN fs

\* download_report: the response for the request given the files on disk
download_report(report_type, filename, fs) ==
    IF report_type \notin {"pdf", "excel"}
    THEN [model |-> "HTTPException", code |-> 400, detail |-> "Invalid report type"]
    ELSE IF Contains(filename, DotDot) \/ Contains(filename, <<"/">>)
              \/ Contains(filename, <<"\\">>)
    THEN [model |-> "HTTPException", code |-> 400, detail |-> "Invalid filename"]
    ELSE LET report_path == PathJoin(<<Outputs>>, filename)
         IN IF ~exists(fs, report_path)
            THEN [model |-> "HTTPException", code |-> 404, detail |-> "Report not found"]
            ELSE [model |-> "FileResponse", code |-> 200,
                  path |-> report_path,
                  media_type |->
                     IF report_type = "pdf" THEN "application/pdf"
                     ELSE "application/vnd.openxmlformats-officedocument.spreadsheetml.sheet",
                  filename |-> filename]

\* health: the body it returns (always with status code 200)
health(env) ==
    IF ~env.imports
    THEN [status |-> "unhealthy", error |-> "Missing dependency",
          fix |-> "Run: pip install -r requirements.txt"]
    ELSE IF ~StrTruthy(env.GOOGLE_API_KEY)
         THEN [status |-> "unhealthy",
               error |-> "GOOGLE_API_KEY not found in environment variables"]
         ELSE [status |-> "healthy", dependencies |-> "ok",
               api_key_configured |-> StrTruthy(env.GOOGLE_API_KEY)]

\* what the host can look like: GOOGLE_API_KEY unset, empty or set; the
\* service's dependencies installed or not
Environs == [GOOGLE_API_KEY : {NoStr, <<>>, <<"k">>}, imports : BOOLEAN]
\* the outputs directory, a report in it, and a file of the same name beside
\* the outputs directory
HostPaths == {<<Outputs>>, <<Outputs, <<"a">>>>, <<<<"a">>>>}

InitHost == WorkflowIdle /\ JobsIdle /\ ChatIdle /\ OthersIdle

\* a directory or a file appears on the host (the report generator creates
\* outputs and writes a report into it; other files are none of the service's)
HostWrite(path) ==
    /\ path \notin DOMAIN files
    /\ Len(path) > 1 => SubSeq(path, 1, Len(path) - 1) \in DOMAIN files
    /\ files' = Put(files, path, IF path = <<Outputs>> THEN "dir" ELSE "file")
    /\ last_response' = None
    /\ UNCHANGED <<WORKFLOW_JOBS, job_pc, job_local, issued, faults>>
    /\ UNCHANGED <<environ, synthVars, agentVars, callVars, wfVars, chatVars>>

\* the environment of the service changes between requests
SetEnviron(env) ==
    /\ env # environ
    /\ environ' = env
    /\ last_response' = None
    /\ UNCHANGED <<WORKFLOW_JOBS, job_pc, job_local, issued, faults>>
    /\ UNCHANGED <<files, synthVars, agentVars, callVars, wfVars, chatVars>>

\* GET /health
Health ==
    /\ last_response' = [model |-> "JSONResponse", code |-> 200, body |-> health(environ)]
    /\ UNCHANGED <<WORKFLOW_JOBS, job_pc, job_local, issued, faults>>
    /\ UNCHANGED <<hostVars, synthVars, agentVars, callVars, wfVars, chatVars>>

\* GET /reports/{report_type}/{filename}
DownloadReport(report_type, filename) ==
    /\ last_response' = [request |-> [report_type |-> report_type, filename |-> filename]]
                           @@ download_report(report_type, filename, files)
    /\ UNCHANGED <<WORKFLOW_JOBS, job_pc, job_local, issued, faults>>
    /\ UNCHANGED <<hostVars, synthVars, agentVars, callVars, wfVars, chatVars>>

NextHost ==
    \/ \E path \in HostPaths : HostWrite(path)
    \/ \E env \in Environs : SetEnviron(env)
    \/ Health
    \/ \E t \in ReportTypes, f \in Filenames : DownloadReport(t, f)

SpecHost == InitHost /\ [][NextHost]_vars

----------------------------------------------------------------------------
(* Specification SpecAgent: one call of a worker agent's analyze().  The six  *)
(* agents share its structure; the data and the rules are those of the IQVIA *)
(* agent and its tool.                                                       *)

\* what the random module can draw for one generated record
MarketSizes == {600, 1200}
Cagrs == {-3, 8}
CompetitorCounts == {3, 25}
\* random.sample(therapy_areas, k=random.randint(1, 3))
TherapyAreaSamples == {<<"Oncology">>, <<"Diabetes", "Cardiovascular">>}
Draws == [market_size : MarketSizes, cagr : Cagrs, competition_count : CompetitorCounts,
          therapy_areas : TherapyAreaSamples]

\* _get_mock_iqvia_data: a record built from fresh random draws
get_mock_data(molecule, draw) ==
    [molecule |-> molecule,
     market_size_usd_millions |-> draw.market_size,
     cagr_percent |-> draw.cagr,
     competition |-> [total_competitors |-> draw.competition_count],
     therapy_areas |-> draw.therapy_areas,
     market_trend |-> IF draw.cagr > 2 THEN "Growing"
                      ELSE IF draw.cagr > -2 THEN "Stable" ELSE "Declining"]

\* sep.join(items)
RECURSIVE Join(_, _)
Join(sep, items) ==
    IF items = <<>> THEN ""
    ELSE IF Len(items) = 1 THEN items[1]
         ELSE items[1] \o sep \o Join(sep, Tail(items))

\* iqvia_insights_tool: the report text formatted from a data record
format_tool_output(data) ==
    "IQVIA Market Intelligence Report for " \o data.molecule
      \o " - Market Size: $" \o ToString(data.market_size_usd_millions) \o "M USD"
      \o " - CAGR (5-year): " \o ToString(data.cagr_percent) \o "%"
      \o " - Market Trend: " \o data.market_trend
      \o " - Total Competitors: " \o ToString(data.competition.total_competitors)
      \o " - Therapy Areas: " \o Join(", ", data.therapy_areas)

\* IQVIAInsightsAgent._extract_key_findings with the test of the market size
\* moved from > 1000 to >= 1000
extract_key_findings_from_1000(data) ==
    LET market_size == DictGet(data, "market_size_usd_millions", 0)
        cagr == DictGet(data, "cagr_percent", 0)
        competition == DictGet(data, "competition", EmptyDict)
        comp_count == DictGet(competition, "total_competitors", 0)
        therapy_areas == DictGet(data, "therapy_areas", <<>>)
    IN << IF market_size >= 1000
          THEN "Large market size: $" \o ToString(market_size) \o "M USD"
          ELSE IF market_size > 500
               THEN "Moderate market size: $" \o ToString(market_size) \o "M USD"
               ELSE "Emerging market: $" \o ToString(market_size) \o "M USD",
          IF cagr > 5 THEN "Strong growth trajectory: " \o ToString(cagr) \o "% CAGR"
          ELSE IF cagr > 0 THEN "Stable growth: " \o ToString(cagr) \o "% CAGR"
               ELSE "Declining market: " \o ToString(cagr) \o "% CAGR",
          IF comp_count < 5 THEN "Low competition: " \o ToString(comp_count) \o " competitors"
          ELSE IF comp_count < 15
               THEN "Moderate competition: " \o ToString(comp_count) \o " competitors"
               ELSE "High competition: " \o ToString(comp_count) \o " competitors" >>
       \o (IF therapy_areas # <<>>
           THEN <<"Key therapy areas: " \o Join(", ", therapy_areas)>>
           ELSE <<>>)

\* IQVIAInsightsAgent._extract_key_findings
extract_key_findings(data) ==
    LET market_size == DictGet(data, "market_size_usd_millions", 0)
        cagr == DictGet(data, "cagr_percent", 0)
        competition == DictGet(data, "competition", EmptyDict)
        comp_count == DictGet(competition, "total_competitors", 0)
        therapy_areas == DictGet(data, "therapy_areas", <<>>)
    IN << IF market_size > 1000
          THEN "Large market size: $" \o ToString(market_size) \o "M USD"
          ELSE IF market_size > 500
               THEN "Moderate market size: $" \o ToString(market_size) \o "M USD"
               ELSE "Emerging market: $" \o ToString(market_size) \o "M USD",
          IF cagr > 5 THEN "Strong growth trajectory: " \o ToString(cagr) \o "% CAGR"
          ELSE IF cagr > 0 THEN "Stable growth: " \o ToString(cagr) \o "% CAGR"
               ELSE "Declining market: " \o ToString(cagr) \o "% CAGR",
          IF comp_count < 5 THEN "Low competition: " \o ToString(comp_count) \o " competitors"
          ELSE IF comp_count < 15
               THEN "Moderate competition: " \o ToString(comp_count) \o " competitors"
               ELSE "High competition: " \o ToString(comp_count) \o " competitors" >>
       \o (IF therapy_areas # <<>>
           THEN <<"Key therapy areas: " \o Join(", ", therapy_areas)>>
           ELSE <<>>)

\* IQVIAInsightsAgent._generate_recommendations
generate_recommendations(data) ==
    LET cagr == DictGet(data, "cagr_percent", 0)
        market_trend == DictGet(data, "market_trend", "")
        competition == DictGet(data, "competition", EmptyDict)
        comp_count == DictGet(competition, "total_competitors", 0)
        therapy_areas == DictGet(data, "therapy_areas", <<>>)
    IN (IF cagr > 5 /\ comp_count < 10
        THEN <<"High-growth, low-competition market - strong repurposing opportunity">>
        ELSE IF cagr > 0 /\ market_trend = "Growing"
             THEN <<"Growing market with potential for new indications">>
             ELSE <<>>)
       \o (IF comp_count > 20
           THEN <<"Highly competitive market - focus on niche indications or formulations">>
           ELSE <<>>)
       \o (IF Len(therapy_areas) > 1
           THEN <<"Multiple therapy areas suggest cross-indication repurposing potential">>
           ELSE <<>>)

InitAgent == WorkflowIdle /\ JobsIdle /\ ChatIdle /\ OthersIdle

\* analyze(molecule) is called on agent a
Analyze(a, molecule) ==
    /\ agent_pc = "idle"
    /\ agent_pc' = "raw"
    /\ agent_local' = [agent |-> a, molecule |-> molecule, raw_data |-> None,
                       tool_output |-> "", analysis |-> None, result |-> None]
    /\ UNCHANGED <<generated, prompts>>
    /\ UNCHANGED <<hostVars, synthVars, callVars, wfVars, jobVars, chatVars>>

\* raw_data = get_<agent>_data_raw(molecule, ...)
GetDataRaw ==
    /\ agent_pc = "raw"
    /\ \E draw \in Draws :
          LET data == get_mock_data(agent_local.molecule, draw)
          IN /\ agent_local' = [agent_local EXCEPT !.raw_data = data]
             /\ generated' = Append(generated, data)
    /\ agent_pc' = "tool"
    /\ UNCHANGED prompts
    /\ UNCHANGED <<hostVars, synthVars, callVars, wfVars, jobVars, chatVars>>

\* tool_output = <agent>_tool.invoke({...}): the tool generates its own record
ToolInvoke ==
    /\ agent_pc = "tool"
    /\ \E draw \in Draws :
          LET data == get_mock_data(agent_local.molecule, draw)
          IN /\ agent_local' = [agent_local EXCEPT !.tool_output = format_tool_output(data)]
             /\ generated' = Append(generated, data)
    /\ agent_pc' = "llm"
    /\ UNCHANGED prompts
    /\ UNCHANGED <<hostVars, synthVars, callVars, wfVars, jobVars, chatVars>>

\* response = self.agent.invoke(messages), the prompt holding tool_output;
\* then format_insights(raw_data, analysis) is returned.  The LLM call may
\* raise, and the exception leaves analyze().
LlmInvoke ==
    /\ agent_pc = "llm"
    /\ prompts' = Append(prompts, agent_local.tool_output)
    /\ \E llm \in LlmOutcomes :
          IF IsExc(llm)
          THEN /\ agent_pc' = "raised"
               /\ agent_local' = [agent_local EXCEPT !.result = llm]
          ELSE /\ agent_pc' = "returned"
               /\ agent_local' =
                     [agent_local EXCEPT
                        !.analysis = llm,
                        !.result = format_insights(agent_local.agent,
                                      agent_local.raw_data, llm.content,
                                      extract_key_findings(agent_local.raw_data),
                                      generate_recommendations(agent_local.raw_data))]
    /\ UNCHANGED generated
    /\ UNCHANGED <<hostVars, synthVars, callVars, wfVars, jobVars, chatVars>>

NextAgent ==
    \/ \E a \in AgentNames, m \in Molecules : Analyze(a, m)
    \/ GetDataRaw
    \/ ToolInvoke
    \/ LlmInvoke

SpecAgent == InitAgent /\ [][NextAgent]_vars

----------------------------------------------------------------------------
(* Specification SpecSynth: one call of MasterAgent.synthesize_results on a  *)
(* dictionary of agent results                                               *)

\* the most results in the dictionary
MaxResults == 2
ResultKeys == {"iqvia", "exim", "other"}
\* the results a caller may pass: a worker's insights, the failed record of
\* execute_agent, a failed record that still carries findings, and a record
\* with no agent_name and no recommendations
ResultShapes ==
    { [agent_name |-> "Agent A", analysis |-> "analysis",
       key_findings |-> <<"f1">>, recommendations |-> <<"r1">>],
      [agent_name |-> "Agent B", error |-> "error", status |-> "failed"],
      [agent_name |-> "Agent C", status |-> "failed",
       key_findings |-> <<"f3">>, recommendations |-> <<"r3">>],
      [analysis |-> "", key_findings |-> <<"f4", "f5">>] }
\* the orders in which a dict can hold up to n of the keys
KeyOrders(n) ==
    {o \in UNION {[1..k -> ResultKeys] : k \in 0..n} :
        \A i, j \in 1..Len(o) : i # j => o[i] # o[j]}

InitSynth == WorkflowIdle /\ JobsIdle /\ ChatIdle /\ OthersIdle

\* synthesize_results(results, molecule, query)
Synthesize(order, results, molecule, query) ==
    /\ synth_call = None
    /\ \E llm \in LlmOutcomes :
          synth_call' = [order |-> order, results |-> results, molecule |-> molecule,
                         query |-> query,
                         ret |-> synthesize_results_in(order, results, molecule, query, llm)]
    /\ UNCHANGED <<hostVars, agentVars, callVars, wfVars, jobVars, chatVars>>

NextSynth ==
    \E order \in KeyOrders(MaxResults), m \in Molecules, q \in Queries :
        \E results \in [Range(order) -> ResultShapes] : Synthesize(order, results, m, q)

SpecSynth == InitSynth /\ [][NextSynth]_vars

----------------------------------------------------------------------------
(* Specification SpecCalls: one call of a function of the master agent, of a *)
(* tool or of an agent, on arguments drawn from small sets                   *)

\* names passed to execute_agent: the registered ones and others
CallNames == AgentNames \cup {"", "IQVIA", "unknown"}

InitCalls == WorkflowIdle /\ JobsIdle /\ ChatIdle /\ OthersIdle

\* master_agent.execute_agent(agent_name, molecule, context); the agent's
\* analyze, when it is reached, returns or raises
CallExecuteAgent(agent_name, molecule, context) ==
    /\ call = None
    /\ \E raises \in BOOLEAN :
          LET a == IF agent_name \in AgentNames THEN agent_name ELSE Agents[1]
              outcome == CHOOSE o \in AnalyzeOutcomes(a, molecule) : IsExc(o) <=> raises
          IN call' = [function |-> "execute_agent",
                      agent_name |-> agent_name,
                      molecule |-> molecule,
                      context |-> context,
                      analyze |-> IF agent_name \in AgentNames THEN outcome ELSE None,
                      ret |-> execute_agent(agent_name, molecule, context, outcome)]
    /\ UNCHANGED <<hostVars, synthVars, agentVars, wfVars, jobVars, chatVars>>

\* tools/patent_tool.py
MaxPatents == 5
\* random.randint(5, 20)
PatentCounts == 5..MaxPatents
\* what is drawn for one patent: years_ago, of random.randint(0, 25), and the
\* time that passes between the two readings of datetime.now(), in days (the
\* readings are microseconds apart; a day is the model's unit of time)
PatentDraws == {<<0, 0>>, <<19, 1>>, <<20, 0>>, <<20, 1>>, <<25, 0>>}
TherapyAreas == {None, PyStr("Oncology")}
Mechanisms == {None, PyStr("AMPK activation")}

\* one entry of patents; dates are in days from the first reading of the
\* clock.  The number, title, assignee, type and jurisdiction, drawn at
\* random and read by nothing below, are left out.
patent(draw) ==
    LET years_ago == draw[1]
        now == draw[2]
        filing_date == 0 - years_ago * 365
        expiry_date == filing_date + 20 * 365
    IN [filing_date |-> filing_date,
        expiry_date |-> expiry_date,
        status |-> IF expiry_date > now THEN "Active" ELSE "Expired"]

fto_assessment_lenient(active_patents) ==
    LET n == Len(active_patents)
    IN [status |-> IF n = 0 THEN "Green" ELSE IF n <= 4 THEN "Amber" ELSE "Red",
        risk_level |-> IF n = 0 THEN "Low" ELSE IF n <= 4 THEN "Medium" ELSE "High",
        reason |-> IF n = 0 THEN <<"No active patents blocking the molecule">>
                   ELSE IF n <= 4
                        THEN <<n, " active patents may require licensing or design-around">>
                        ELSE <<n, " active patents create significant FTO risk">>,
        blocking_patents |-> SubSeq(active_patents, 1, IF n < 3 THEN n ELSE 3)]

\* the FTO assessment of _get_mock_patent_data
fto_assessment(active_patents) ==
    LET n == Len(active_patents)
    IN [status |-> IF n = 0 THEN "Green" ELSE IF n <= 3 THEN "Amber" ELSE "Red",
        risk_level |-> IF n = 0 THEN "Low" ELSE IF n <= 3 THEN "Medium" ELSE "High",
        reason |-> IF n = 0 THEN <<"No active patents blocking the molecule">>
                   ELSE IF n <= 3
                        THEN <<n, " active patents may require licensing or design-around">>
                        ELSE <<n, " active patents create significant FTO risk">>,
        blocking_patents |-> SubSeq(active_patents, 1, IF n < 3 THEN n ELSE 3)]

IsActive(p) == p.status = "Active"
IsExpired(p) == p.status = "Expired"
\* an expiry date, read back from its day, is within five years of now; no
\* draw puts the expiry exactly five years ahead, where the time of day
\* decides
ExpiresSoon(p) == p.expiry_date < 5 * 365

\* _get_mock_patent_data(molecule, therapy_area), with what it draws
get_mock_patent_data(molecule, therapy_area, draws) ==
    LET num_patents == Len(draws)
        patents == [i \in 1..num_patents |-> patent(draws[i])]
        active_patents == SelectSeq(patents, IsActive)
        expired_patents == SelectSeq(patents, IsExpired)
        fto == fto_assessment(active_patents)
        upcoming_expiries == SelectSeq(active_patents, ExpiresSoon)
    IN [molecule |-> molecule,
        therapy_area |-> therapy_area,
        total_patents |-> num_patents,
        active_patents |-> Len(active_patents),
        expired_patents |-> Len(expired_patents),
        patents |-> patents,
        fto_assessment |-> fto,
        upcoming_expiries |-> Len(upcoming_expiries),
        \* without the fourth insight, the top assignee
        key_insights |->
            << <<"FTO Status: ", fto.status, " (", fto.risk_level, " risk)">>,
               <<Len(active_patents), " active patents, ", Len(expired_patents),
                 " expired">>,
               <<Len(upcoming_expiries), " patents expiring in next 5 years">> >>,
        data_source |-> "USPTO Patent Database (Mock)",
        last_updated |-> "2024-Q4"]

\* get_patent_data_raw(molecule, therapy_area)
CallPatentData(molecule, therapy_area) ==
    /\ call = None
    /\ \E k \in PatentCounts : \E draws \in [1..k -> PatentDraws] :
          call' = [function |-> "get_patent_data_raw", molecule |-> molecule,
                   therapy_area |-> therapy_area, draws |-> draws,
                   ret |-> get_mock_patent_data(molecule, therapy_area, draws)]
    /\ UNCHANGED <<hostVars, synthVars, agentVars, wfVars, jobVars, chatVars>>

\* tools/clinical_trials_tool.py
MaxTrials == 8
\* random.randint(8, 30)
TrialCounts == 8..MaxTrials
Phases == <<"Phase 1", "Phase 2", "Phase 3", "Phase 4", "Not Applicable">>
Indications ==
    {"Type 2 Diabetes", "Cardiovascular Disease", "Cancer", "Alzheimer's Disease",
     "Rheumatoid Arthritis", "Hypertension", "Obesity", "Chronic Pain"}
\* what is drawn for one trial: status, phase and indication.  The id, title,
\* sponsor, dates, countries and participants, read by nothing that is
\* modelled, are left out.
TrialDraws ==
    << [status |-> "Recruiting", phase |-> "Phase 2", indication |-> "Cancer"],
       [status |-> "Active, not recruiting", phase |-> "Phase 3", indication |-> "Cancer"],
       [status |-> "Recruiting", phase |-> "Phase 4", indication |-> "Obesity"],
       [status |-> "Completed", phase |-> "Phase 3", indication |-> "Obesity"],
       [status |-> "Terminated", phase |-> "Phase 1", indication |-> "Cancer"],
       [status |-> "Suspended", phase |-> "Not Applicable", indication |-> "Obesity"] >>
\* the lists of k trials, each one of TrialDraws from the lo-th on, in the
\* order of TrialDraws: dicts are modelled without their order, and the
\* order of the trials decides nothing else
RECURSIVE TrialLists(_, _)
TrialLists(k, lo) ==
    IF k = 0 THEN {<<>>}
    ELSE UNION {{<<TrialDraws[x]>> \o rest : rest \in TrialLists(k - 1, x)} :
                  x \in lo..Len(TrialDraws)}

IsOngoing(t) == t.status \in {"Recruiting", "Active, not recruiting"}
IsCompleted(t) == t.status = "Completed"
IsTerminated(t) == t.status \in {"Terminated", "Suspended"}
IsEmerging(t) == t.phase \in {"Phase 2", "Phase 3"} /\ IsOngoing(t)
TrialCount(trials, Test(_)) == Cardinality({i \in 1..Len(trials) : Test(trials[i])})

phase_distribution_all(trials) ==
    [phase \in Range(Phases) |->
        LET InPhase(t) == t.phase = phase IN TrialCount(trials, InPhase)]

\* phase_dist: the phases that have a trial, with the number of their trials
phase_distribution(trials) ==
    LET count(phase) == LET InPhase(t) == t.phase = phase IN TrialCount(trials, InPhase)
    IN [phase \in {ph \in Range(Phases) : count(ph) > 0} |-> count(phase)]

\* emerging_indications: the indications of the ongoing trials in phase 2 or
\* 3, with the number of those trials
emerging_indications(trials) ==
    LET count(ind) == LET Of(t) == IsEmerging(t) /\ t.indication = ind
                      IN TrialCount(trials, Of)
    IN [ind \in {i \in Indications : count(i) > 0} |-> count(ind)]

\* _get_mock_clinical_trials_data(molecule, mechanism), with what it draws
get_mock_clinical_trials_data(molecule, mechanism, trials) ==
    [molecule |-> molecule,
     mechanism |-> mechanism,
     total_trials |-> Len(trials),
     ongoing_trials |-> TrialCount(trials, IsOngoing),
     completed_trials |-> TrialCount(trials, IsCompleted),
     terminated_trials |-> TrialCount(trials, IsTerminated),
     trials |-> trials,
     phase_distribution |-> phase_distribution(trials),
     emerging_indications |-> emerging_indications(trials),
     \* the first insight; the others read the order of the dicts and the
     \* countries
     key_insights |->
         << <<TrialCount(trials, IsOngoing), " ongoing trials, ",
              TrialCount(trials, IsCompleted), " completed">> >>,
     data_source |-> "ClinicalTrials.gov / WHO ICTRP (Mock)",
     last_updated |-> "2024-Q4"]

\* get_clinical_trials_data_raw(molecule, mechanism)
CallClinicalTrialsData(molecule, mechanism) ==
    /\ call = None
    /\ \E k \in TrialCounts : \E trials \in TrialLists(k, 1) :
          call' = [function |-> "get_clinical_trials_data_raw", molecule |-> molecule,
                   mechanism |-> mechanism,
                   ret |-> get_mock_clinical_trials_data(molecule, mechanism, trials)]
    /\ UNCHANGED <<hostVars, synthVars, agentVars, wfVars, jobVars, chatVars>>

\* the records _extract_key_findings is given: values on both sides of each
\* threshold, with and without therapy areas, and records that lack keys
MarketData ==
    [market_size_usd_millions : {500, 501, 1000, 1001},
     cagr_percent : {-1, 0, 1, 5, 6},
     competition : [total_competitors : {4, 5, 14, 15}],
     therapy_areas : {<<>>, <<"Diabetes", "Cardiovascular">>}]
      \cup {EmptyDict,
            [competition |-> EmptyDict],
            [market_size_usd_millions |-> 1500, therapy_areas |-> <<"Oncology">>]}
      \cup {get_mock_data("Metformin", d) : d \in Draws}

\* agent._extract_key_findings(data) on the IQVIA agent
CallExtractKeyFindings(data) ==
    /\ call = None
    /\ call' = [function |-> "_extract_key_findings", data |-> data,
                ret |-> extract_key_findings(data)]
    /\ UNCHANGED <<hostVars, synthVars, agentVars, wfVars, jobVars, chatVars>>

NextCalls ==
    \/ \E n \in CallNames, m \in Molecules, c \in Contexts : CallExecuteAgent(n, m, c)
    \/ \E m \in Molecules, t \in TherapyAreas : CallPatentData(m, t)
    \/ \E m \in Molecules, mech \in Mechanisms : CallClinicalTrialsData(m, mech)
    \/ \E data \in MarketData : CallExtractKeyFindings(data)

SpecCalls == InitCalls /\ [][NextCalls]_vars

----------------------------------------------------------------------------
(* Claims about one run of the workflow, checked under Spec *)

StepsSeen == [i \in 1..Len(updates) |-> updates[i].current_step]
AgentSteps == [i \in 1..Len(Agents) |-> NodeOf[Agents[i]]]

\* C1: an agent whose analyze call raised during a run is tracked as failed.
\* After the run its name is in agents_failed and not in agents_completed,
\* and its result slot holds a record with status 'failed'.
C1_FailedAgentTracked ==
    run_pc = "returned" =>
        \A a \in analyze_raised :
            /\ a \in Range(final_state.agents_failed)
            /\ a \notin Range(final_state.agents_completed)
            /\ DictGet(final_state[ResultSlot[a]], "status", "") = "failed"

\* C2 as stated: once planning is done no agent's start waits for another
\* agent to finish (every agent not yet started can start), and at most six
\* agent executions are in flight.
C2_AgentsConcurrent ==
    /\ Cardinality(active \cap ExecuteNodes) <= Len(Agents)
    /\ ("plan" \in done /\ run_pc = "streaming") =>
          \A a \in AgentNames :
              NodeOf[a] \notin active \cup done => CanStart(NodeOf[a])

\* C2 amended: the agents are executed one at a time in the fixed order of
\* the chain.  At most one graph node is in flight, and an agent has started
\* only if every agent before it in the order has finished.
C2_AgentsSequential ==
    /\ Cardinality(active) <= 1
    /\ \A i \in 1..Len(Agents) :
          NodeOf[Agents[i]] \in active \cup done =>
              \A j \in 1..(i - 1) : NodeOf[Agents[j]] \in done

C2_Witness ==
    /\ NodeOf["exim"] \in active
    /\ NodeOf["iqvia"] \in done
    /\ NodeOf["patent"] \notin active \cup done

\* C3: the steps of a run happen in the order plan, the six agent executions,
\* synthesize, end.  An agent execution starts only after plan has finished;
\* synthesize starts only after all six agent executions have finished, and
\* then each of the six result slots is non-null; the run ends only after
\* synthesize has finished.
C3_StepOrder ==
    /\ \A n \in ExecuteNodes : n \in active \cup done => "plan" \in done
    /\ "synthesize" \in active \cup done =>
          /\ ExecuteNodes \subseteq done
          /\ \A a \in AgentNames : st[ResultSlot[a]] # None
    /\ run_pc = "returned" => "synthesize" \in done

C3_Witness ==
    /\ "synthesize" \in active
    /\ analyze_raised # {}
    /\ analyze_raised # AgentNames

\* C4: error collection is best-effort.  Whatever subset of the agents fails,
\* the run does not stop before synthesize: it raises only when the synthesis
\* LLM call raised, with all six agents executed by then; while streaming it
\* can always take a step; and when it returns, current_step is 'completed'
\* and synthesized_result is non-null.
C4_BestEffort ==
    /\ run_pc = "raised" =>
          /\ IsExc(llm_outcome)
          /\ ExecuteNodes \subseteq done
    /\ run_pc = "streaming" =>
          \/ active # {}
          \/ \E n \in Nodes : CanStart(n)
          \/ StreamExhausted /\ "synthesize" \in done
    /\ run_pc = "returned" =>
          /\ ExecuteNodes \subseteq done
          /\ final_state.current_step = "completed"
          /\ final_state.synthesized_result # None

C4_Witness ==
    /\ run_pc = "returned"
    /\ analyze_raised = AgentNames
    /\ final_state.synthesized_result # None

\* C5: the state run() returns has molecule and user_query equal to the
\* arguments, current_step 'completed', and synthesized_result and
\* report_data both non-null.
C5_RunResult ==
    run_pc = "returned" =>
        /\ final_state.molecule = run_args.molecule
        /\ final_state.user_query = run_args.query
        /\ final_state.current_step = "completed"
        /\ final_state.synthesized_result # None
        /\ final_state.report_data # None

C5_Witness ==
    /\ run_pc = "returned"
    /\ run_args.molecule = ""
    /\ run_args.query = ""
    /\ final_state.report_data # None

\* C6 as stated: on_state_update sees every value current_step takes during
\* the run, in order (planning, the six execute_* steps, synthesizing,
\* completed), and the state of the last invocation is the state run() returns.
C6_CallbackSeesEveryStep ==
    run_pc = "returned" =>
        /\ StepsSeen = <<"planning">> \o AgentSteps \o <<"synthesizing", "completed">>
        /\ updates[Len(updates)] = final_state

\* C6 amended: on_state_update is invoked once per graph node, with the state
\* that node returned.  It sees planning, the six execute_* steps and completed,
\* in that order; 'synthesizing' is assigned during the run but overwritten
\* before the synthesize node returns, so the callback never sees it.  The state
\* of the last invocation is the state run() returns.
C6_CallbackPerNode ==
    /\ Len(updates) = Cardinality(done)
    /\ \A i \in 1..Len(updates) : updates[i].current_step # "synthesizing"
    /\ run_pc = "returned" =>
          /\ StepsSeen = <<"planning">> \o AgentSteps \o <<"completed">>
          /\ steps = <<"initialized", "planning">> \o AgentSteps
                        \o <<"synthesizing", "completed">>
          /\ updates[Len(updates)] = final_state

C6_Witness ==
    /\ run_pc = "returned"
    /\ Len(updates) = Cardinality(Nodes)
    /\ "synthesizing" \in Range(steps)

FrameFields ==
    {"agents_failed", "agents_to_run", "molecule", "user_query", "context",
     "synthesized_result", "report_data"}

\* C17: each of the six agent execution steps, when its agent call returns,
\* sets only its own result slot, to a non-null value, and appends only its
\* own name to agents_completed; it leaves the other five result slots,
\* agents_failed, agents_to_run, molecule, user_query, context,
\* synthesized_result and report_data unchanged.  Entering the step changes
\* none of these fields.
C17_ExecuteStepFrame ==
    [][\A a \in AgentNames :
          /\ (NodeOf[a] \in active' \ active) =>
                /\ \A f \in FrameFields \cup {"agents_completed"} : st'[f] = st[f]
                /\ \A b \in AgentNames : st'[ResultSlot[b]] = st[ResultSlot[b]]
          /\ (NodeOf[a] \in active /\ NodeOf[a] \in done') =>
                /\ st[ResultSlot[a]] = None
                /\ st'[ResultSlot[a]] # None
                /\ st'.agents_completed = Append(st.agents_completed, a)
                /\ \A b \in AgentNames \ {a} : st'[ResultSlot[b]] = st[ResultSlot[b]]
                /\ \A f \in FrameFields : st'[f] = st[f]]_vars

C17_Witness ==
    /\ NodeOf["exim"] \in done
    /\ NodeOf["patent"] \notin active \cup done
    /\ st.agents_completed = <<"iqvia", "exim">>
    /\ st.exim_result # None
    /\ st.patent_result = None
    /\ "exim" \in analyze_raised

\* texts of the exceptions a failure message can report
FailureTexts == {"analyze error", "Unknown agent"}
IsPrefix(s, t) == Len(s) <= Len(t) /\ SubSeq(t, 1, Len(s)) = s
Count(log, S) == Cardinality({i \in 1..Len(log) : log[i] \in S})
OutcomeMessages(a) == {MsgCompleted(a)} \cup {MsgFailed(a, e) : e \in FailureTexts}

Executed == {a \in AgentNames : NodeOf[a] \in done}
NoDuplicates(seq) == Cardinality(Range(seq)) = Len(seq)

\* C19: in every state of a run after planning, agents_completed and
\* agents_failed are disjoint and hold no name twice, their union is exactly
\* the set of agents whose execution step has run, and an agent's result slot
\* is non-null if and only if its name is in that union; at the end of the run
\* the union is all six agents.
C19_TrackingPartition ==
    /\ ("plan" \in done /\ st # None) =>
          /\ Range(st.agents_completed) \cap Range(st.agents_failed) = {}
          /\ NoDuplicates(st.agents_completed)
          /\ NoDuplicates(st.agents_failed)
          /\ Range(st.agents_completed) \cup Range(st.agents_failed) = Executed
          /\ \A a \in AgentNames : st[ResultSlot[a]] # None <=> a \in Executed
    /\ run_pc = "returned" =>
          Range(final_state.agents_completed) \cup Range(final_state.agents_failed)
              = AgentNames

C19_Witness ==
    /\ run_pc = "streaming"
    /\ Executed = {"iqvia", "exim", "patent"}
    /\ analyze_raised = {"exim"}
    /\ NodeOf["clinical_trials"] \in active

\* C20: at the end of every run the synthesis summary agrees with the
\* workflow's own tracking, for any combination of succeeding and failing
\* agents: summary.agents_failed equals the length of agents_failed and
\* summary.total_agents_executed equals the length of agents_completed.
C20_SummaryAgreesWithTracking ==
    run_pc = "returned" =>
        LET summary == final_state.synthesized_result.summary
        IN /\ summary.agents_failed = Len(final_state.agents_failed)
           /\ summary.total_agents_executed = Len(final_state.agents_completed)

----------------------------------------------------------------------------
(* Claims about the job store, checked under SpecJobs *)

StatusRank == [queued |-> 0, running |-> 1, completed |-> 2, failed |-> 2]
IsStatusAnswer(r) ==
    r # None /\ r.model \in {"ChatJobStatusResponse", "HTTPException"}
        /\ "job_id" \in DOMAIN r

\* C8: the status of a job record only moves forward along
\* queued -> running -> (completed | failed), and completed and failed are
\* terminal: once a job is completed or failed, its status, error and result
\* never change again.
C8_StatusForwardTerminal ==
    [][\A j \in DOMAIN WORKFLOW_JOBS :
          /\ StatusRank[WORKFLOW_JOBS'[j].status] >= StatusRank[WORKFLOW_JOBS[j].status]
          /\ WORKFLOW_JOBS[j].status \in {"completed", "failed"} =>
                /\ WORKFLOW_JOBS'[j].status = WORKFLOW_JOBS[j].status
                /\ WORKFLOW_JOBS'[j].error = WORKFLOW_JOBS[j].error
                /\ WORKFLOW_JOBS'[j].result = WORKFLOW_JOBS[j].result]_vars

\* C9: job records are never evicted.  Every id returned by POST /chats/start
\* stays in the store; GET /chats/status/{job_id} answers 404 exactly when
\* job_id was never returned by a start, whatever other jobs are started or
\* finished; and a poll neither creates nor changes a record.
C9_NoEviction ==
    /\ [](/\ DOMAIN WORKFLOW_JOBS = Range(issued)
          /\ \A job_id \in PollIds :
                StatusResponse(WORKFLOW_JOBS, job_id).code = 404
                    <=> job_id \notin Range(issued)
          /\ IsStatusAnswer(last_response) =>
                (last_response.code = 404 <=> last_response.job_id \notin Range(issued)))
    /\ [][/\ DOMAIN WORKFLOW_JOBS \subseteq DOMAIN WORKFLOW_JOBS'
          /\ IsStatusAnswer(last_response') => WORKFLOW_JOBS' = WORKFLOW_JOBS]_vars

C9_Witness ==
    /\ Len(issued) = 2
    /\ IsStatusAnswer(last_response)
    /\ last_response.code = 200
    /\ last_response.job_id = issued[1]
    /\ last_response.status = "running"
    /\ WORKFLOW_JOBS[issued[2]].status = "completed"

\* C22: in every state of the job store, a job with status 'completed' has a
\* non-null result whose own status is 'completed' and a null error; a job
\* with status 'failed' has a non-null error and a null result; a job with
\* status 'queued' or 'running' has a null result.
C22_RecordConsistent ==
    \A j \in DOMAIN WORKFLOW_JOBS :
        LET r == WORKFLOW_JOBS[j]
        IN /\ r.status = "completed" =>
                 /\ r.result # None
                 /\ r.result.status = "completed"
                 /\ r.error = None
           /\ r.status = "failed" => (r.error # None /\ r.result = None)
           /\ r.status \in {"queued", "running"} => r.result = None

----------------------------------------------------------------------------
(* Claims about the two submit variants, checked under SpecChat *)

\* C10: for every request, the synchronous variant POST /chats and the
\* background job started by POST /chats/start run the workflow with the same
\* molecule, the same query and the same context.
C10_SameRunArguments ==
    \A j \in DOMAIN job_local :
        (sync_call # None /\ sync_call.called /\ job_local[j].run_args # None)
            => sync_call.args = job_local[j].run_args

\* C11: for every request to POST /chats whose molecule field is given
\* (non-empty), the workflow is run on exactly that molecule, whatever the
\* message is, an empty message included; the molecule comes from the message
\* only when the molecule field is absent.
C11_MoleculeFieldWins ==
    (sync_call # None /\ sync_call.called /\ StrTruthy(chat_request.molecule))
        => sync_call.args.molecule = chat_request.molecule

\* C12: a failure of report generation fails neither the request nor the job.
\* When generate_reports raised, POST /chats answers 200 with status
\* 'completed' and report_paths null, and the background job ends in status
\* 'completed' with its result set and report_paths null.
C12_ReportFailureTolerated ==
    /\ (sync_call # None /\ IsExc(sync_call.report)) =>
          /\ sync_call.response.code = 200
          /\ sync_call.response.status = "completed"
          /\ sync_call.response.report_paths = None
    /\ \A j \in DOMAIN job_local :
          (IsExc(job_local[j].report) /\ job_pc[j] = "finished") =>
              /\ WORKFLOW_JOBS[j].status = "completed"
              /\ WORKFLOW_JOBS[j].error = None
              /\ WORKFLOW_JOBS[j].result # None
              /\ WORKFLOW_JOBS[j].result.status = "completed"
              /\ WORKFLOW_JOBS[j].result.report_paths = None

C12_Witness ==
    /\ sync_call # None /\ IsExc(sync_call.report)
    /\ sync_call.response.code = 200
    /\ \E j \in DOMAIN job_local :
          /\ IsExc(job_local[j].report)
          /\ job_pc[j] = "finished"
          /\ WORKFLOW_JOBS[j].result # None

----------------------------------------------------------------------------
(* Claims about the download and health endpoints, checked under SpecHost *)

\* the regular file of outputs whose name is filename, if there is one
ReportFile(filename) == <<Outputs, filename>>
HasReportFile(fs, filename) ==
    ReportFile(filename) \in DOMAIN fs /\ fs[ReportFile(filename)] = "file"
InsideOutputs(path) ==
    LET real == Resolve(path, <<>>)
    IN Len(real) >= 2 /\ real[1] = Outputs /\ real[2] # DotDot

\* C13: GET /reports/{report_type}/{filename} never serves a file outside the
\* outputs directory.  A report_type other than 'pdf' or 'excel' is answered
\* 400; a filename containing '..', '/' or a backslash is answered 400; a name
\* with no file in outputs is answered 404; only otherwise the file
\* outputs/<filename> is returned.
C13_DownloadConfined ==
    \A t \in ReportTypes, f \in Filenames :
        LET r == download_report(t, f, files)
            badType == t \notin {"pdf", "excel"}
            badName == Contains(f, DotDot) \/ "/" \in Range(f) \/ "\\" \in Range(f)
        IN /\ badType => r.code = 400
           /\ badName => r.code = 400
           /\ (~badType /\ ~badName /\ ~HasReportFile(files, f)) => r.code = 404
           /\ r.code = 200 =>
                 /\ ~badType /\ ~badName /\ HasReportFile(files, f)
                 /\ r.path = ReportFile(f)
                 /\ InsideOutputs(r.path)

\* C16: when the service is healthy (its imports work and GOOGLE_API_KEY is
\* set), GET /health answers 200 with the body exactly {"status": "healthy"}.
C16_HealthBodyExact ==
    (last_response # None /\ last_response.model = "JSONResponse"
        /\ environ.imports /\ StrTruthy(environ.GOOGLE_API_KEY))
      => /\ last_response.code = 200
         /\ last_response.body = [status |-> "healthy"]

----------------------------------------------------------------------------
(* Claims about a worker agent, checked under SpecAgent *)

\* C14: within one analyze call a worker agent makes one tool call and one
\* LLM call.  The mock data is generated once, so the raw_data of the agent's
\* result (from which key_findings and recommendations are derived) is the
\* data record that was formatted and given to the LLM for its analysis.
C14_OneDataRecord ==
    agent_pc = "returned" =>
        /\ Len(generated) = 1
        /\ Len(prompts) = 1
        /\ prompts[1] = format_tool_output(agent_local.result.raw_data)
        /\ agent_local.result.key_findings
              = extract_key_findings(agent_local.result.raw_data)

----------------------------------------------------------------------------
(* Claims about synthesize_results, checked under SpecSynth *)

IsFailed(result) == DictGet(result, "status", "") = "failed"
\* the items under `key` of the first n results that are not failed, each
\* prefixed with the agent_name of its result (the dict key when it has none)
RECURSIVE ItemsOfFirst(_, _, _, _)
ItemsOfFirst(order, results, key, n) ==
    IF n = 0 THEN <<>>
    ELSE LET r == results[order[n]]
             items == DictGet(r, key, <<>>)
             name == IF "agent_name" \in DOMAIN r THEN r.agent_name ELSE order[n]
         IN ItemsOfFirst(order, results, key, n - 1)
              \o (IF IsFailed(r) THEN <<>>
                  ELSE [i \in 1..Len(items) |-> name \o ": " \o items[i]])

\* C15: for any dictionary of agent results, synthesize_results returns the
\* input molecule and query unchanged; its key_findings and recommendations
\* are those of the results whose status is not 'failed', each prefixed with
\* the agent's name, in the order of the input results; and its summary has
\* total_agents_executed + agents_failed = number of results,
\* key_insights_count = length of key_findings and recommendations_count =
\* length of recommendations.
C15_SynthesisContract ==
    (synth_call # None /\ ~IsExc(synth_call.ret)) =>
        LET c == synth_call
            ret == synth_call.ret
        IN /\ ret.molecule = c.molecule
           /\ ret.query = c.query
           /\ ret.key_findings
                 = ItemsOfFirst(c.order, c.results, "key_findings", Len(c.order))
           /\ ret.recommendations
                 = ItemsOfFirst(c.order, c.results, "recommendations", Len(c.order))
           /\ ret.summary.total_agents_executed + ret.summary.agents_failed
                 = Cardinality(DOMAIN c.results)
           /\ ret.summary.agents_failed
                 = Cardinality({k \in DOMAIN c.results : IsFailed(c.results[k])})
           /\ ret.summary.key_insights_count = Len(ret.key_findings)
           /\ ret.summary.recommendations_count = Len(ret.recommendations)

C15_Witness ==
    /\ synth_call # None
    /\ ~IsExc(synth_call.ret)
    /\ synth_call.order = <<"other", "iqvia">>
    /\ IsFailed(synth_call.results["other"])
    /\ DictGet(synth_call.results["other"], "key_findings", <<>>) # <<>>
    /\ "agent_name" \notin DOMAIN synth_call.results["iqvia"]
    /\ synth_call.ret.key_findings = <<"iqvia: f4", "iqvia: f5">>
    /\ synth_call.ret.summary.agents_failed = 1

------------------------------------------------------------\* report_data of state s agrees with the rest of s and with the arguments
\* of the run
ReportAgrees(s) ==
    LET rd == s.report_data
        sr == s.synthesized_result
    IN /\ rd # None
       /\ sr # None
       /\ rd.molecule = s.molecule
       /\ rd.molecule = run_args.molecule
       /\ rd.query = s.user_query
       /\ rd.query = run_args.query
       /\ rd.synthesis = sr.synthesis
       /\ rd.key_findings = sr.key_findings
       /\ rd.recommendations = sr.recommendations
       /\ DOMAIN rd.agent_results = {a \in AgentNames : s[ResultSlot[a]] # None}
       /\ \A a \in DOMAIN rd.agent_results : rd.agent_results[a] = s[ResultSlot[a]]

\* C27: after the synthesize step, report_data agrees with the rest of the
\* state: its molecule and query are the run's molecule and user_query, its
\* synthesis, key_findings and recommendations equal those of
\* synthesized_result, and its agent_results holds exactly the agents whose
\* result slot is not None, each mapped to the value of that slot.
C27_ReportDataAgrees ==
    /\ "synthesize" \in done => ReportAgrees(st)
    /\ run_pc = "returned" => ReportAgrees(final_state)

\* a returned run in which an agent's analyze raised and the synthesis has
\* findings: agent_results holds the failed record of that agent too
C27_Witness ==
    /\ run_pc = "returned"
    /\ analyze_raised # {}
    /\ final_state.report_data # None
    /\ final_state.report_data.key_findings # <<>>
    /\ DOMAIN final_state.report_data.agent_results = AgentNames
    /\ \E a \in analyze_raised :
          final_state.report_data.agent_results[a].status = "failed"

----------------
(* Claims about single functions, checked under SpecCalls *)

IsCallOf(f) == call # None /\ call.function = f

\* C21: execute_agent raises ValueError exactly for agent names outside the
\* six registered ones.  For a registered name it never raises, whatever the
\* agent's analyze does: it returns the analyze result, or, when analyze
\* raises, a record with the agent's name, the error text and status 'failed'.
C21_ExecuteAgentNeverRaises ==
    IsCallOf("execute_agent") =>
        /\ IsExc(call.ret) <=> call.agent_name \notin AgentNames
        /\ call.agent_name \notin AgentNames => call.ret = Exc("Unknown agent")
        /\ call.agent_name \in AgentNames =>
              IF IsExc(call.analyze)
              THEN call.ret = [agent_name |-> AgentDisplay[call.agent_name],
                               error |-> call.analyze.exception,
                               status |-> "failed"]
              ELSE call.ret = call.analyze

C21_Witness ==
    /\ IsCallOf("execute_agent")
    /\ call.agent_name = "patent"
    /\ IsExc(call.analyze)
    /\ ~IsExc(call.ret)
    /\ call.ret.status = "failed"

\* C24: in every record the patent tool returns, fto_assessment.status is
\* Green, Amber or Red; it is Green with risk Low exactly when there are no
\* active patents, Amber with risk Medium exactly when there are one to three,
\* and Red with risk High exactly when there are four or more; and
\* active_patents + expired_patents = total_patents.
C24_FtoMatchesActiveCount ==
    IsCallOf("get_patent_data_raw") =>
        LET data == call.ret
            fto == data.fto_assessment
            n_active == data.active_patents
        IN /\ fto.status \in {"Green", "Amber", "Red"}
           /\ (fto.status = "Green") <=> (n_active = 0)
           /\ (fto.status = "Amber") <=> (n_active \in 1..3)
           /\ (fto.status = "Red") <=> (n_active >= 4)
           /\ (fto.status = "Green") <=> (fto.risk_level = "Low")
           /\ (fto.status = "Amber") <=> (fto.risk_level = "Medium")
           /\ (fto.status = "Red") <=> (fto.risk_level = "High")
           /\ data.active_patents + data.expired_patents = data.total_patents
           /\ data.total_patents = Len(data.patents)

\* a record with four active patents, one of them about to expire, and one
\* patent that expires at the moment it is made
C24_Witness ==
    /\ IsCallOf("get_patent_data_raw")
    /\ call.ret.active_patents = 4
    /\ call.ret.expired_patents = 1
    /\ call.ret.fto_assessment.status = "Red"
    /\ call.ret.upcoming_expiries = 1
    /\ \E i \in DOMAIN call.ret.patents :
          call.ret.patents[i].expiry_date = 0 /\ call.ret.patents[i].status = "Expired"

\* the sum of the values of a dict of numbers
RECURSIVE SumValues(_)
SumValues(d) ==
    IF DOMAIN d = {} THEN 0
    ELSE LET k == CHOOSE x \in DOMAIN d : TRUE
         IN d[k] + SumValues([x \in DOMAIN d \ {k} |-> d[x]])

\* C25: in every record the clinical trials tool returns, ongoing_trials +
\* completed_trials + terminated_trials = total_trials; the counts of
\* phase_distribution sum to total_trials and none of them is zero; and the
\* counts of emerging_indications sum to at most ongoing_trials.
C25_TrialCountsAddUp ==
    IsCallOf("get_clinical_trials_data_raw") =>
        LET data == call.ret
        IN /\ data.ongoing_trials + data.completed_trials + data.terminated_trials
                = data.total_trials
           /\ data.total_trials = Len(data.trials)
           /\ SumValues(data.phase_distribution) = data.total_trials
           /\ \A ph \in DOMAIN data.phase_distribution : data.phase_distribution[ph] > 0
           /\ SumValues(data.emerging_indications) <= data.ongoing_trials

\* a record with trials of every category, a phase without a trial, and an
\* ongoing trial that is not an emerging one
C25_Witness ==
    /\ IsCallOf("get_clinical_trials_data_raw")
    /\ call.ret.ongoing_trials > 0
    /\ call.ret.completed_trials > 0
    /\ call.ret.terminated_trials > 1
    /\ DOMAIN call.ret.phase_distribution # Range(Phases)
    /\ DOMAIN call.ret.emerging_indications # {}
    /\ SumValues(call.ret.emerging_indications) < call.ret.ongoing_trials

MarketLabels == {"Large market size", "Moderate market size", "Emerging market"}
GrowthLabels == {"Strong growth trajectory", "Stable growth", "Declining market"}
CompetitionLabels == {"Low competition", "Moderate competition", "High competition"}
MarketFinding(label, market_size) == label \o ": $" \o ToString(market_size) \o "M USD"
GrowthFinding(label, cagr) == label \o ": " \o ToString(cagr) \o "% CAGR"
CompetitionFinding(label, comp_count) ==
    label \o ": " \o ToString(comp_count) \o " competitors"

\* C26: for any market data record, the key findings of the IQVIA agent hold
\* exactly one market-size finding (Large above 1000, Moderate for 501..1000,
\* Emerging otherwise), exactly one growth finding (Strong above 5, Stable
\* for 0 < cagr <= 5, Declining otherwise) and exactly one competition
\* finding (Low below 5, Moderate for 5..14, High from 15), in that order.
C26_KeyFindings ==
    IsCallOf("_extract_key_findings") =>
        LET data == call.data
            findings == call.ret
            market_size == DictGet(data, "market_size_usd_millions", 0)
            cagr == DictGet(data, "cagr_percent", 0)
            comp_count == DictGet(DictGet(data, "competition", EmptyDict),
                                  "total_competitors", 0)
            OfKind(i) ==
                IF \E l \in MarketLabels : findings[i] = MarketFinding(l, market_size)
                THEN "market size"
                ELSE IF \E l \in GrowthLabels : findings[i] = GrowthFinding(l, cagr)
                     THEN "growth"
                     ELSE IF \E l \in CompetitionLabels :
                                findings[i] = CompetitionFinding(l, comp_count)
                          THEN "competition"
                          ELSE "other"
        IN /\ Len(findings) >= 3
           /\ findings[1] =
                MarketFinding(IF market_size > 1000 THEN "Large market size"
                              ELSE IF market_size \in 501..1000 THEN "Moderate market size"
                                   ELSE "Emerging market",
                              market_size)
           /\ findings[2] =
                GrowthFinding(IF cagr > 5 THEN "Strong growth trajectory"
                              ELSE IF 0 < cagr /\ cagr <= 5 THEN "Stable growth"
                                   ELSE "Declining market",
                              cagr)
           /\ findings[3] =
                CompetitionFinding(IF comp_count < 5 THEN "Low competition"
                                   ELSE IF comp_count \in 5..14 THEN "Moderate competition"
                                        ELSE "High competition",
                                   comp_count)
           /\ \A i \in 4..Len(findings) : OfKind(i) = "other"

\* the findings of a record on the thresholds, with therapy areas
C26_Witness ==
    /\ IsCallOf("_extract_key_findings")
    /\ call.data = [market_size_usd_millions |-> 1000, cagr_percent |-> 5,
                    competition |-> [total_competitors |-> 14],
                    therapy_areas |-> <<"Diabetes", "Cardiovascular">>]
    /\ call.ret = <<"Moderate market size: $1000M USD", "Stable growth: 5% CAGR",
                    "Moderate competition: 14 competitors",
                    "Key therapy areas: Diabetes, Cardiovascular">>

====
